---- MODULE Spec2Model ----
(***************************************************************************)
(* Model of the ccli command-line parser: ccli_parse_opts (src/ccli.h, the *)
(* hardened revision) and cli_parse_opts (src/cli.h, the revision with     *)
(* mutual exclusions).  A C string is a sequence of one-character strings; *)
(* the terminating '\0' is the value NUL; a NULL pointer is the value      *)
(* Null.  A 64-bit integer is its bit pattern, four 16-bit limbs, least    *)
(* significant first (long and long long are both 64 bits wide).           *)
(***************************************************************************)
EXTENDS Integers, Sequences, FiniteSets, TLC

\* ------------------------------------------------------------------------
\* Bounds of the model
\* ------------------------------------------------------------------------

\* the largest number of argv entries after the program name
MaxArgs == 3

\* the same, for a parse that follows another on the same tables
MaxArgsAgain == 1

\* ------------------------------------------------------------------------
\* C strings and characters
\* ------------------------------------------------------------------------

NUL == "NUL"

Null == <<"NULL">>

\* s[i] of a C string, i counted from 0; the byte at strlen(s) is '\0'.
\* A read beyond the terminator is outside the object: the caller supplies
\* the byte `oob` that the build happens to find there.
CharAt(s, i, oob) ==
    IF i < Len(s) THEN s[i + 1] ELSE IF i = Len(s) THEN NUL ELSE oob

\* the C string s + k (the suffix that starts at offset k)
StrFrom(s, k) == SubSeq(s, k + 1, Len(s))

ccli_streq(s1, s2) ==
    IF s1 = Null \/ s2 = Null THEN (s1 = Null /\ s2 = Null) ELSE s1 = s2

ccli_strcontains(s, c) ==
    IF s = Null THEN FALSE ELSE \E i \in 1..Len(s) : s[i] = c

\* the index of the first c in s, -1 when there is none
ccli_stridx(s, c) ==
    IF s = Null \/ ~(\E i \in 1..Len(s) : s[i] = c) THEN -1
    ELSE (CHOOSE i \in 1..Len(s) : s[i] = c /\ \A j \in 1..(i - 1) : s[j] # c) - 1

\* ------------------------------------------------------------------------
\* Bit-packed option parameters (uint16_t params)
\* ------------------------------------------------------------------------

CCLI_ARG_NULL == 0
CCLI_ARG_REQ_MASK == 32768
CCLI_ARG_POS_MASK == 16384
CCLI_ARG_MAT_MASK == 8192
CCLI_ARG_TYP_MASK == 31
CCLI_ARG_CMD_MASK == 8160

ccli_boolean == 1
ccli_string == 2
ccli_number == 4
ccli_unumber == 8

RECURSIVE BitAnd(_, _)
BitAnd(a, b) ==
    IF a = 0 \/ b = 0 THEN 0
    ELSE (a % 2) * (b % 2) + 2 * BitAnd(a \div 2, b \div 2)

RECURSIVE BitOr(_, _)
BitOr(a, b) ==
    IF a = 0 THEN b
    ELSE IF b = 0 THEN a
    ELSE (IF a % 2 = 1 \/ b % 2 = 1 THEN 1 ELSE 0) + 2 * BitOr(a \div 2, b \div 2)

\* ~mask within the 16 bits of params
BitNot16(m) == 65535 - m

\* x << n
Shl(x, n) == x * (2 ^ n)

\* a variant of ccli_params with the scope a bit lower
ccli_params_low_scope(typ, req, pos, cmd) ==
    BitAnd(BitOr(BitOr(BitOr(Shl(req, 15), Shl(pos, 14)), Shl(cmd, 4)), typ),
           BitNot16(CCLI_ARG_MAT_MASK)) % 65536

ccli_params(typ, req, pos, cmd) ==
    BitAnd(BitOr(BitOr(BitOr(Shl(req, 15), Shl(pos, 14)), Shl(cmd, 5)), typ),
           BitNot16(CCLI_ARG_MAT_MASK)) % 65536

ccli_option_type(opt) == BitAnd(opt.params, CCLI_ARG_TYP_MASK)
ccli_option_subcmd(opt) == BitAnd(opt.params, CCLI_ARG_CMD_MASK) \div 32
ccli_option_subcmd_idx(opt) == ccli_option_subcmd(opt) - 2
ccli_option_is_global(opt) == ccli_option_subcmd(opt) = 0
ccli_option_is_root(opt) == ccli_option_subcmd(opt) = 1
ccli_option_is_required(opt) ==
    BitAnd(opt.params, CCLI_ARG_REQ_MASK) = CCLI_ARG_REQ_MASK
ccli_option_is_positional(opt) ==
    BitAnd(opt.params, CCLI_ARG_POS_MASK) = CCLI_ARG_POS_MASK
ccli_option_is_null(opt) == opt.params = CCLI_ARG_NULL
ccli_option_is_matched(opt) ==
    BitAnd(opt.params, CCLI_ARG_MAT_MASK) = CCLI_ARG_MAT_MASK

\* a variant of ccli_option_set_matched that flips the bit
ccli_option_set_matched_flip(opt) ==
    [opt EXCEPT !.params = IF BitAnd(opt.params, CCLI_ARG_MAT_MASK) = CCLI_ARG_MAT_MASK
                           THEN opt.params - CCLI_ARG_MAT_MASK
                           ELSE opt.params + CCLI_ARG_MAT_MASK]

\* (opt).params |= CCLI_ARG_MAT_MASK
ccli_option_set_matched(opt) ==
    [opt EXCEPT !.params = BitOr(opt.params, CCLI_ARG_MAT_MASK)]

ccli_scope_global == 0
ccli_scope_root == 1
ccli_scope_subcmd(x) == x + 2

\* ------------------------------------------------------------------------
\* Token classifier
\* ------------------------------------------------------------------------

ccli__is_long_opt(opt) ==
    IF Len(opt) < 3 THEN FALSE ELSE opt[1] = "-" /\ opt[1] = opt[2]

\* a variant of ccli__short_opt_kind that takes any second character
ccli__short_opt_kind_any_second(opt) ==
    IF Len(opt) < 2 THEN "ccli_short_none"
    ELSE IF opt[1] # "-" THEN "ccli_short_none"
    ELSE IF Len(opt) >= 3 THEN "ccli_short_multiple"
    ELSE "ccli_short_single"

ccli__short_opt_kind(opt) ==
    IF Len(opt) < 2 THEN "ccli_short_none"
    ELSE IF opt[1] # "-" THEN "ccli_short_none"
    ELSE IF Len(opt) >= 3 THEN "ccli_short_multiple"
    ELSE IF opt[1] = "-" /\ opt[2] # "-" THEN "ccli_short_single"
    ELSE "ccli_short_none"

ccli__is_option(opt) ==
    ccli__is_long_opt(opt) \/ ccli__short_opt_kind(opt) # "ccli_short_none"

ccli__long_opt_eq(argv_opt, long_opt) ==
    /\ CharAt(argv_opt, 0, NUL) = "-"
    /\ CharAt(argv_opt, 1, NUL) = "-"
    /\ ccli_streq(StrFrom(argv_opt, 2), long_opt)

\* ------------------------------------------------------------------------
\* 64-bit integers and the C library's strtol / strtoll
\* ------------------------------------------------------------------------

Limb == 65536

W0 == <<0, 0, 0, 0>>
W1 == <<1, 0, 0, 0>>
LONG_MAX == <<65535, 65535, 65535, 32767>>
LONG_MIN == <<0, 0, 0, 32768>>
UINT64_MAX == <<65535, 65535, 65535, 65535>>

\* w * base + d on the 64-bit pattern w; carry says the result left 64 bits
MulAdd(w, base, d) ==
    LET l1 == w[1] * base + d
        l2 == w[2] * base + (l1 \div Limb)
        l3 == w[3] * base + (l2 \div Limb)
        l4 == w[4] * base + (l3 \div Limb)
    IN  [mag |-> <<l1 % Limb, l2 % Limb, l3 % Limb, l4 % Limb>>,
         carry |-> (l4 \div Limb) > 0]

\* two's complement negation
Neg64(w) ==
    LET l1 == (Limb - 1 - w[1]) + 1
        l2 == (Limb - 1 - w[2]) + (l1 \div Limb)
        l3 == (Limb - 1 - w[3]) + (l2 \div Limb)
        l4 == (Limb - 1 - w[4]) + (l3 \div Limb)
    IN  <<l1 % Limb, l2 % Limb, l3 % Limb, l4 % Limb>>

\* the value of a digit character; 36 for a character that is no digit in
\* any base up to 16
DigitVal(c) ==
    CASE c = "0" -> 0 [] c = "1" -> 1 [] c = "2" -> 2 [] c = "3" -> 3
      [] c = "4" -> 4 [] c = "5" -> 5 [] c = "6" -> 6 [] c = "7" -> 7
      [] c = "8" -> 8 [] c = "9" -> 9
      [] c \in {"a", "A"} -> 10 [] c \in {"b", "B"} -> 11
      [] c \in {"c", "C"} -> 12 [] c \in {"d", "D"} -> 13
      [] c \in {"e", "E"} -> 14 [] c \in {"f", "F"} -> 15
      [] OTHER -> 36

\* the digits of s from position i (counted from 1) on, in the given base
RECURSIVE ScanDigits(_, _, _, _, _)
ScanDigits(s, i, base, acc, ovf) ==
    IF i > Len(s) \/ DigitVal(s[i]) >= base
    THEN [mag |-> acc, ovf |-> ovf, stop |-> i - 1]
    ELSE LET r == MulAdd(acc, base, DigitVal(s[i]))
         IN  IF r.carry
             THEN ScanDigits(s, i + 1, base, r.mag, TRUE)
             ELSE ScanDigits(s, i + 1, base, r.mag, ovf)

RECURSIVE SkipSpace(_, _)
SkipSpace(s, i) == IF i <= Len(s) /\ s[i] = " " THEN SkipSpace(s, i + 1) ELSE i

\* the result of strtol once the digits from position start on are scanned
StrtolResult(neg, start, sc) ==
    IF sc.stop = start - 1 THEN [val |-> W0, end |-> 0, erange |-> FALSE]
    ELSE IF \/ sc.ovf
            \/ (~neg /\ sc.mag[4] >= 32768)
            \/ (neg /\ sc.mag[4] >= 32768 /\ sc.mag # LONG_MIN)
    THEN [val |-> IF neg THEN LONG_MIN ELSE LONG_MAX, end |-> sc.stop, erange |-> TRUE]
    ELSE [val |-> IF neg THEN Neg64(sc.mag) ELSE sc.mag, end |-> sc.stop, erange |-> FALSE]

\* base 16 accepts "0x" before the digits when a hexadecimal digit follows
HexPrefix(num, base, i) ==
    /\ base = 16
    /\ i + 2 <= Len(num)
    /\ num[i] = "0"
    /\ num[i + 1] \in {"x", "X"}
    /\ DigitVal(num[i + 2]) < 16

StrtolDigits(num, base, neg, start) ==
    StrtolResult(neg, start, ScanDigits(num, start, base, W0, FALSE))

\* strtol from the first character i that is no white space: the sign, the
\* prefix, the digits
StrtolSign(num, base, neg, i) ==
    StrtolDigits(num, base, neg, IF HexPrefix(num, base, i) THEN i + 2 ELSE i)

StrtolAt(num, base, i) ==
    StrtolSign(num, base, i <= Len(num) /\ num[i] = "-",
               IF i <= Len(num) /\ num[i] \in {"-", "+"} THEN i + 1 ELSE i)

\* strtol(num, &end, base) and strtoll(num, &end, base) for base 2, 10 or
\* 16: val is the result, end the offset of end_ptr from num (0: no
\* conversion was made), erange whether errno is set to ERANGE
strtol(num, base) == StrtolAt(num, base, SkipSpace(num, 1))

\* the failure test made after each strtol call; limit is the set of results
\* taken as saturated and needErange whether errno is consulted as well
ParseFailed(num, r, limit, needErange) ==
    \/ r.end = 0
    \/ ((~needErange \/ r.erange) /\ r.val \in limit)
    \/ CharAt(num, r.end, NUL) # NUL

Parsed(num, r, limit, needErange) ==
    IF ParseFailed(num, r, limit, needErange) THEN [ok |-> FALSE, val |-> W0]
    ELSE [ok |-> TRUE, val |-> r.val]

\* the third stage: "0b" and binary digits
TryBin(num, limit) ==
    IF Len(num) <= 2 \/ num[1] # "0" \/ num[2] # "b" THEN [ok |-> FALSE, val |-> W0]
    ELSE Parsed(StrFrom(num, 2), strtol(StrFrom(num, 2), 2), limit, FALSE)

\* the second stage: "0x" and hexadecimal digits
TryHex(num, limit) ==
    IF Len(num) <= 2 \/ num[1] # "0" \/ num[2] # "x" THEN [ok |-> FALSE, val |-> W0]
    ELSE Parsed(num, strtol(num, 16), limit, FALSE)

FirstOk(a, b, c) == IF a.ok THEN a ELSE IF b.ok THEN b ELSE c

\* the three stages (decimal, 0x hexadecimal, 0b binary) shared by both
\* parsers; ok is the return value, val what is written to *data when ok
TryParse(num, limit) ==
    FirstOk(Parsed(num, strtol(num, 10), limit, TRUE), TryHex(num, limit),
            TryBin(num, limit))

ccli_try_parse_int(num) == TryParse(num, {LONG_MAX, LONG_MIN})

ccli_try_parse_uint(num) == TryParse(num, {UINT64_MAX})

\* ------------------------------------------------------------------------
\* Destination storage: the value last written through opt.data
\* ------------------------------------------------------------------------

Unset == [tag |-> "unset", s |-> <<>>, n |-> W0]
BoolVal == [tag |-> "bool", s |-> <<>>, n |-> W1]
StrVal(str) == [tag |-> "str", s |-> str, n |-> W0]
IntVal(w) == [tag |-> "int64", s |-> <<>>, n |-> w]
UIntVal(w) == [tag |-> "uint64", s |-> <<>>, n |-> w]

\* ------------------------------------------------------------------------
\* Descriptor tables, subcommand tables and argument alphabets
\* ------------------------------------------------------------------------

CCLI_MAX_STR_LEN == 1024

Desc == <<"d">>

\* one ccli_option initialiser {short, long, ccli_params(...), &var, desc, arg_desc}
Option(short, long, typ, req, pos, scope, arg_desc) ==
    [short_arg |-> short, long_arg |-> long,
     params |-> ccli_params(typ, req, pos, scope), arg_desc |-> arg_desc]

Dashes(name) == <<"-", "-">> \o name
Short(c) == <<"-", c>>
Assign(name, value) == name \o <<"=">> \o value

s_name == <<"n", "a", "m", "e">>
s_num == <<"n", "u", "m">>
s_cnt == <<"c", "n", "t">>
s_verbose == <<"v", "e", "r", "b", "o", "s", "e">>
s_out == <<"o", "u", "t">>
s_jobs == <<"j", "o", "b", "s">>
s_src == <<"s", "r", "c">>
s_dst == <<"d", "s", "t">>
s_build == <<"b", "u", "i", "l", "d">>
s_test == <<"t", "e", "s", "t">>
s_help == <<"h", "e", "l", "p">>
s_Bob == <<"B", "o", "b">>
s_x == <<"x">>
s_y == <<"y">>
s_5 == <<"5">>
s_m5 == <<"-", "5">>
s_xyz == <<"-", "x", "y", "z">>
s_dd == <<"-", "-">>
s_d == <<"-">>

s_prog == <<"p", "r", "o", "g">>

\* required string --name/-n, string --out without a short name, boolean
\* --verbose/-v; no subcommands
NamedTable ==
    [subcommands |-> <<>>,
     exclusions |-> <<>>,
     options |-> << Option("n", s_name, ccli_string, 1, 0, ccli_scope_global, Desc),
                    Option(NUL, s_out, ccli_string, 0, 0, ccli_scope_global, Desc),
                    Option("v", s_verbose, ccli_boolean, 0, 0, ccli_scope_global, Null) >>,
     tokens |-> { Dashes(s_name), s_Bob, Short("x"), Assign(Dashes(s_name), s_Bob),
                  Assign(Short("v"), s_x), Assign(s_x, s_Bob), Dashes(s_help), s_xyz }]

\* two positional strings (the first required) and a boolean; no subcommands
PositionalTable ==
    [subcommands |-> <<>>,
     exclusions |-> <<>>,
     options |-> << Option(NUL, s_src, ccli_string, 1, 1, ccli_scope_global, Null),
                    Option("v", s_verbose, ccli_boolean, 0, 0, ccli_scope_global, Null),
                    Option(NUL, s_dst, ccli_string, 0, 1, ccli_scope_global, Null) >>,
     tokens |-> { s_x, s_y, s_dd, s_d, Short("v"), Short("h") }]

\* subcommands build and test; a global boolean, a root-only string, a
\* required number bound to build and a positional string bound to test
ScopedTable ==
    [subcommands |-> << s_build, s_test >>,
     exclusions |-> <<>>,
     options |-> << Option("v", s_verbose, ccli_boolean, 0, 0, ccli_scope_global, Null),
                    Option("o", s_out, ccli_string, 0, 0, ccli_scope_root, Desc),
                    Option("j", s_jobs, ccli_number, 1, 0, ccli_scope_subcmd(0), Desc),
                    Option(NUL, s_src, ccli_string, 0, 1, ccli_scope_subcmd(1), Null) >>,
     tokens |-> { s_build, s_test, Dashes(s_verbose), Dashes(s_out), Dashes(s_jobs),
                  s_5, Assign(Dashes(s_jobs), s_5), s_dd }]

\* a signed and an unsigned number; no subcommands
NumberTable ==
    [subcommands |-> <<>>,
     exclusions |-> <<>>,
     options |-> << Option("i", s_num, ccli_number, 0, 0, ccli_scope_global, Desc),
                    Option("u", s_cnt, ccli_unumber, 0, 0, ccli_scope_global, Desc) >>,
     tokens |-> { Dashes(s_num), Dashes(s_cnt), s_5, s_m5, s_x,
                  Assign(Dashes(s_cnt), s_m5) }]

\* no option at all
EmptyTable ==
    [subcommands |-> <<>>,
     exclusions |-> <<>>,
     options |-> <<>>,
     tokens |-> { s_xyz, s_x, Dashes(s_help), s_dd, Assign(<<>>, s_x) }]

\* two subcommands of the same name; the only option is bound to the second
ShadowedTable ==
    [subcommands |-> << s_build, s_build >>,
     exclusions |-> <<>>,
     options |-> << Option("v", s_verbose, ccli_boolean, 0, 0, ccli_scope_subcmd(1), Null) >>,
     tokens |-> { s_build, s_xyz, Dashes(s_verbose), Short("v"), s_x }]

\* a table that fails validation: a string option without arg_desc
InvalidTable ==
    [subcommands |-> <<>>,
     exclusions |-> <<>>,
     options |-> << Option("v", s_verbose, ccli_boolean, 0, 0, ccli_scope_global, Null),
                    Option("n", s_name, ccli_string, 0, 0, ccli_scope_global, Null) >>,
     tokens |-> { Dashes(s_help), Dashes(s_verbose) }]

\* a table that fails validation: an option without a long name
NamelessTable ==
    [subcommands |-> <<>>,
     exclusions |-> <<>>,
     options |-> << Option("v", s_verbose, ccli_boolean, 0, 0, ccli_scope_global, Null),
                    Option("x", Null, ccli_boolean, 0, 0, ccli_scope_global, Null) >>,
     tokens |-> { Dashes(s_help), Short("x"), Short("v") }]

\* a text of CCLI_MAX_STR_LEN characters and one of a character more
s_max == [i \in 1..CCLI_MAX_STR_LEN |-> "a"]
s_long == [i \in 1..(CCLI_MAX_STR_LEN + 1) |-> "a"]

\* a string option and a positional string, given values at and over the
\* length limit; no subcommands
LongTable ==
    [subcommands |-> <<>>,
     exclusions |-> <<>>,
     options |-> << Option("o", s_out, ccli_string, 0, 0, ccli_scope_global, Desc),
                    Option(NUL, s_src, ccli_string, 0, 1, ccli_scope_global, Null) >>,
     tokens |-> { s_long, s_max, Dashes(s_out), Assign(Dashes(s_out), s_long), s_d }]

s_quiet == <<"q", "u", "i", "e", "t">>
s_fast == <<"f", "a", "s", "t">>
s_slow == <<"s", "l", "o", "w">>

\* one cli_exclusion initialiser {one, other}
Exclusion(one, other) == [one |-> one, other |-> other]

\* two global booleans that exclude each other, and a required boolean
\* bound to the subcommand build that excludes a required global one
ExclusiveTable ==
    [subcommands |-> << s_build >>,
     exclusions |-> << Exclusion(s_verbose, s_quiet), Exclusion(s_fast, s_slow) >>,
     options |-> << Option("v", s_verbose, ccli_boolean, 0, 0, ccli_scope_global, Null),
                    Option("q", s_quiet, ccli_boolean, 0, 0, ccli_scope_global, Null),
                    Option("f", s_fast, ccli_boolean, 1, 0, ccli_scope_subcmd(0), Null),
                    Option("s", s_slow, ccli_boolean, 1, 0, ccli_scope_global, Null) >>,
     tokens |-> { s_build, Short("v"), Short("q"), Short("f"), Short("s") }]

\* an exclusion entry without its second name
HalfExclusionTable ==
    [subcommands |-> <<>>,
     exclusions |-> << Exclusion(s_verbose, Null) >>,
     options |-> << Option("v", s_verbose, ccli_boolean, 0, 0, ccli_scope_global, Null),
                    Option("q", s_quiet, ccli_boolean, 0, 0, ccli_scope_global, Null) >>,
     tokens |-> { Dashes(s_help), Short("v"), s_x }]

\* an exclusion entry with an empty name, after a well-formed one
EmptyExclusionTable ==
    [subcommands |-> <<>>,
     exclusions |-> << Exclusion(s_verbose, s_quiet), Exclusion(<<>>, s_quiet) >>,
     options |-> << Option("v", s_verbose, ccli_boolean, 0, 0, ccli_scope_global, Null),
                    Option("q", s_quiet, ccli_boolean, 0, 0, ccli_scope_global, Null) >>,
     tokens |-> { Short("v"), Short("q") }]

\* subcommands build and test, with a positional string bound to each
SplitTable ==
    [subcommands |-> << s_build, s_test >>,
     exclusions |-> <<>>,
     options |-> << Option(NUL, s_src, ccli_string, 0, 1, ccli_scope_subcmd(0), Null),
                    Option(NUL, s_dst, ccli_string, 0, 1, ccli_scope_subcmd(1), Null) >>,
     tokens |-> { s_build, s_dd, s_d, s_x }]

Tables == << NamedTable, PositionalTable, ScopedTable, NumberTable, EmptyTable,
             ShadowedTable, InvalidTable, LongTable, ExclusiveTable, HalfExclusionTable,
             EmptyExclusionTable, NamelessTable, SplitTable >>

\* every argument list of at most n entries over the alphabet
ArgLists(tokens, n) == UNION { [1..k -> tokens] : k \in 0..n }

\* the bytes an out-of-bounds read of a scratch buffer may find
StrayBytes == {NUL, "n", "v"}

\* ------------------------------------------------------------------------
\* State
\* ------------------------------------------------------------------------

VARIABLES
    rev,          \* "ccli": ccli_parse_opts, "cli": cli_parse_opts
    table,        \* index in Tables of the caller's tables
    subcommands,  \* the command names before the terminator
    options,      \* the descriptors before the terminator
    data,         \* data[k]: the storage opt.data of options[k] points to
    argv,         \* argv[0..argc-1], here argv[1..argc]
    pc,           \* the position in the parse function
    cmd_idx,      \* 1: root, i + 2: subcommands[i]
    argc_idx,     \* the main loop's cursor (an index of C's argv)
    outcome,      \* how the call ended, "running" until then
    culprit,      \* the option or token an error message names
    result,       \* the returned command name, Null for NULL
    call,         \* a call of one of the library's functions on its own
    entry         \* the descriptors as they were when the parse function was entered

vars == <<rev, table, subcommands, options, data, argv, pc, cmd_idx, argc_idx,
          outcome, culprit, result, call, entry>>

\* no function is called on its own
NoCall == [fn |-> "none", args |-> <<>>, done |-> FALSE, out |-> <<>>]

argc == Len(argv)

\* argv[i] in C
Arg(i) == argv[i + 1]

ccli__opt_len(opts) == Len(opts)

ccli__cmd_len(commands) == Len(commands)

\* the exclusion entries cli_parse_opts is given, before the terminator
mutual_exclusions == Tables[table].exclusions

Init ==
    /\ rev \in {"ccli", "cli"}
    /\ table \in 1..Len(Tables)
    /\ subcommands = Tables[table].subcommands
    /\ options = Tables[table].options
    /\ data = [k \in 1..Len(Tables[table].options) |-> Unset]
    /\ argv \in {<<>>} \cup { <<s_prog>> \o a : a \in ArgLists(Tables[table].tokens, MaxArgs) }
    /\ pc = "validate"
    /\ cmd_idx = 0
    /\ argc_idx = 0
    /\ outcome = "running"
    /\ culprit = Null
    /\ result = Null
    /\ call = NoCall
    /\ entry = options

\* exit(): the process ends with the given outcome
Exit(how, what) ==
    /\ pc' = "done"
    /\ outcome' = how
    /\ culprit' = what

\* ------------------------------------------------------------------------
\* ccli__validate_options, ccli__run_command, ccli__find_help
\* ------------------------------------------------------------------------

\* a variant of ccli__validate_options that tests the long names only
ccli__validate_options_names_only(opts) ==
    LET bad(k) == opts[k].long_arg = Null
    IN  IF \E k \in 1..ccli__opt_len(opts) : bad(k)
        THEN CHOOSE k \in 1..ccli__opt_len(opts) : bad(k) /\ \A j \in 1..(k - 1) : ~bad(j)
        ELSE 0

\* the first index the validation loop panics at, 0 when the table is valid
ccli__validate_options(opts) ==
    LET bad(k) == \/ opts[k].long_arg = Null
                  \/ /\ ccli_option_type(opts[k]) # ccli_boolean
                     /\ ~ccli_option_is_positional(opts[k])
                     /\ opts[k].arg_desc = Null
    IN  IF \E k \in 1..ccli__opt_len(opts) : bad(k)
        THEN CHOOSE k \in 1..ccli__opt_len(opts) : bad(k) /\ \A j \in 1..(k - 1) : ~bad(j)
        ELSE 0

\* a variant of FirstCommand without the early return: the last entry that
\* equals the name wins (found holds the result so far)
RECURSIVE LastCommandFrom(_, _, _, _)
LastCommandFrom(commands, name, i, found) ==
    IF i >= ccli__cmd_len(commands) THEN found
    ELSE LastCommandFrom(commands, name, i + 1,
                         IF ccli_streq(commands[i + 1], name) THEN i + 2 ELSE found)

LastCommand(commands, name, i) == LastCommandFrom(commands, name, i, 1)

RECURSIVE FirstCommand(_, _, _)
FirstCommand(commands, name, i) ==
    IF i >= ccli__cmd_len(commands) THEN 1
    ELSE IF ccli_streq(commands[i + 1], name) THEN i + 2
    ELSE FirstCommand(commands, name, i + 1)

ccli__run_command(commands, args) ==
    IF Len(args) = 1 THEN 1 ELSE FirstCommand(commands, args[2], 0)

\* "help": ccli_help and exit(0); "none": the scan returns
RECURSIVE HelpScan(_, _)
HelpScan(args, i) ==
    IF i >= Len(args) THEN "none"
    ELSE IF ccli_streq(args[i + 1], s_dd) \/ ccli_streq(args[i + 1], s_d) THEN "none"
    ELSE IF ccli_streq(args[i + 1], Dashes(s_help)) \/ ccli_streq(args[i + 1], Short("h"))
    THEN "help"
    ELSE HelpScan(args, i + 1)

\* a variant of HelpScan that does not stop at a `--` or `-`
RECURSIVE HelpScanAll(_, _)
HelpScanAll(args, i) ==
    IF i >= Len(args) THEN "none"
    ELSE IF ccli_streq(args[i + 1], Dashes(s_help)) \/ ccli_streq(args[i + 1], Short("h"))
    THEN "help"
    ELSE HelpScanAll(args, i + 1)

ccli__find_help_past_sentinel(args) == HelpScanAll(args, 1)

ccli__find_help(args) == HelpScan(args, 1)

\* the name of the active command, NULL for the root
Subcommand(idx) == IF idx > 1 THEN subcommands[idx - 1] ELSE Null

\* ccli_parse_opts up to and including ccli__validate_options
Validate ==
    /\ pc = "validate"
    /\ IF argc = 0
       THEN Exit("ArgvError", Null)
       ELSE IF ccli__validate_options(options) # 0
       THEN Exit("ConfigError", options[ccli__validate_options(options)].long_arg)
       ELSE /\ pc' = "run_command"
            /\ UNCHANGED <<outcome, culprit>>
    /\ UNCHANGED <<call, entry, rev, table, subcommands, options, data, argv, cmd_idx, argc_idx, result>>

RunCommand ==
    /\ pc = "run_command"
    /\ cmd_idx' = ccli__run_command(subcommands, argv)
    /\ pc' = "find_help"
    /\ UNCHANGED <<call, entry, rev, table, subcommands, options, data, argv, argc_idx, outcome,
                   culprit, result>>

FindHelp ==
    /\ pc = "find_help"
    /\ IF ccli__find_help(argv) = "help"
       THEN /\ Exit("help", Null)
            /\ UNCHANGED argc_idx
       ELSE /\ pc' = "loop"
            /\ argc_idx' = 1 + (IF cmd_idx > 1 THEN 1 ELSE 0)
            /\ UNCHANGED <<outcome, culprit>>
    /\ UNCHANGED <<call, entry, rev, table, subcommands, options, data, argv, cmd_idx, result>>

\* ------------------------------------------------------------------------
\* The matching engine.  A step works on a record st of the variables it may
\* change: options, data, argc_idx, matched_arg, outcome and culprit.
\* ------------------------------------------------------------------------

Fatal(st, how, what) == [st EXCEPT !.outcome = how, !.culprit = what]

\* a variant of InScope that lets a root-only option through under every
\* subcommand
InScope_root_everywhere(opt, idx) ==
    ~(~ccli_option_is_global(opt) /\ ~ccli_option_is_root(opt)
      /\ ~(ccli_option_subcmd(opt) = idx))

\* the scope test of the main loop, of parse_equals and of check_unmatched
InScope(opt, idx) == ~(~ccli_option_is_global(opt) /\ ~(ccli_option_subcmd(opt) = idx))

\* commands[i].command, the terminator's NULL at i = length
CommandAt(commands, i) == IF i < ccli__cmd_len(commands) THEN commands[i + 1] ELSE Null

ccli__arg_relevant(opt, commands, subcommand) ==
    IF ccli_option_is_global(opt) THEN TRUE
    ELSE IF ccli_option_is_root(opt) THEN subcommand = Null
    ELSE ccli_streq(CommandAt(commands, ccli_option_subcmd_idx(opt)), subcommand)

ccli__pos_args_len(opts, commands, subcommand) ==
    Cardinality({ k \in 1..ccli__opt_len(opts) :
                    /\ ccli_option_is_positional(opts[k])
                    /\ ccli__arg_relevant(opts[k], commands, subcommand) })

\* a variant of StoreParsed that keeps a value already stored
StoreParsed_first_wins(good, bad, k, res, val, how) ==
    IF res.ok THEN (IF good.data[k] = Unset THEN [good EXCEPT !.data[k] = val] ELSE good)
    ELSE Fatal(bad, how, bad.options[k].long_arg)

\* *data = res on success, a fatal error on the state bad otherwise
StoreParsed(good, bad, k, res, val, how) ==
    IF res.ok THEN [good EXCEPT !.data[k] = val] ELSE Fatal(bad, how, bad.options[k].long_arg)

StoreSigned(good, bad, k, res, how) == StoreParsed(good, bad, k, res, IntVal(res.val), how)

\* cli.h keeps an unsigned result in the num_data member of the union
Unsigned(r, w) == IF r = "ccli" THEN UIntVal(w) ELSE IntVal(w)

StoreUnsigned(r, good, bad, k, res, how) ==
    StoreParsed(good, bad, k, res, Unsigned(r, res.val), how)

\* the switch on the option type that stores a positional token (ccli.h);
\* the option has been marked matched before
StoreByType(st, k, arg) ==
    LET typ == ccli_option_type(st.options[k])
    IN  IF typ = ccli_boolean THEN [st EXCEPT !.data[k] = BoolVal]
        ELSE IF typ = ccli_string
        THEN IF Len(arg) > CCLI_MAX_STR_LEN
             THEN Fatal(st, "StringTooLong", st.options[k].long_arg)
             ELSE [st EXCEPT !.data[k] = StrVal(arg)]
        ELSE IF typ = ccli_number
        THEN StoreSigned(st, st, k, ccli_try_parse_int(arg), "InvalidNumber")
        ELSE IF typ = ccli_unumber
        THEN StoreUnsigned("ccli", st, st, k, ccli_try_parse_uint(arg), "InvalidNumber")
        ELSE Fatal(st, "Panic", Null)

\* ccli.h: a positional-shaped token meets an unmatched positional option
ccli_positional(st, k, arg) ==
    StoreByType([st EXCEPT !.matched_arg = TRUE,
                           !.options[k] = ccli_option_set_matched(st.options[k])],
                k, arg)

\* cli.h: a positional-shaped token meets a positional option
cli_positional(st, k, arg) ==
    [st EXCEPT !.matched_arg = TRUE,
               !.options[k] = ccli_option_set_matched(st.options[k]),
               !.data[k] = StrVal(arg)]

\* a variant of NamedOption that takes the next token as the value without
\* looking at its shape
NamedOption_takes_any(r, args, st, k) ==
    LET opt == st.options[k]
        typ == ccli_option_type(st.options[k])
        st1 == [st EXCEPT !.matched_arg = TRUE,
                          !.options[k] = ccli_option_set_matched(st.options[k])]
        st2 == [st EXCEPT !.matched_arg = TRUE,
                          !.options[k] = ccli_option_set_matched(st.options[k]),
                          !.argc_idx = st.argc_idx + 1]
        has_next == st.argc_idx + 1 < Len(args)
        next == args[st.argc_idx + 2]
    IN  IF typ = ccli_boolean THEN [st1 EXCEPT !.data[k] = BoolVal]
        ELSE IF ~has_next THEN Fatal(st1, "MissingArgument", opt.long_arg)
        ELSE IF typ = ccli_string
        THEN IF r = "ccli" /\ Len(next) > CCLI_MAX_STR_LEN
             THEN Fatal(st2, "StringTooLong", opt.long_arg)
             ELSE [st2 EXCEPT !.data[k] = StrVal(next)]
        ELSE IF typ = ccli_number
        THEN StoreSigned(st2, st2, k, ccli_try_parse_int(next), "InvalidNumber")
        ELSE IF typ = ccli_unumber
        THEN StoreUnsigned(r, st2, st2, k, ccli_try_parse_uint(next), "InvalidNumber")
        ELSE Fatal(st2, "Panic", Null)

\* a long or single short option token names options[k]: the flag is set,
\* or the next token is taken as the value (r: the revision, args: argv)
NamedOption(r, args, st, k) ==
    LET opt == st.options[k]
        typ == ccli_option_type(st.options[k])
        st1 == [st EXCEPT !.matched_arg = TRUE,
                          !.options[k] = ccli_option_set_matched(st.options[k])]
        st2 == [st EXCEPT !.matched_arg = TRUE,
                          !.options[k] = ccli_option_set_matched(st.options[k]),
                          !.argc_idx = st.argc_idx + 1]
        has_next == st.argc_idx + 1 < Len(args)
        next == args[st.argc_idx + 2]
    IN  IF typ = ccli_boolean THEN [st1 EXCEPT !.data[k] = BoolVal]
        ELSE IF ~has_next \/ ccli__is_option(next)
        THEN IF typ = ccli_number /\ has_next
             THEN StoreSigned(st2, st1, k, ccli_try_parse_int(next), "MissingArgument")
             ELSE IF typ = ccli_unumber /\ has_next
             THEN Fatal(st1, "InvalidUnsigned", opt.long_arg)
             ELSE Fatal(st1, "MissingArgument", opt.long_arg)
        ELSE IF typ = ccli_string
        THEN IF r = "ccli" /\ Len(next) > CCLI_MAX_STR_LEN
             THEN Fatal(st2, "StringTooLong", opt.long_arg)
             ELSE [st2 EXCEPT !.data[k] = StrVal(next)]
        ELSE IF typ = ccli_number
        THEN StoreSigned(st2, st2, k, ccli_try_parse_int(next), "InvalidNumber")
        ELSE IF typ = ccli_unumber
        THEN StoreUnsigned(r, st2, st2, k, ccli_try_parse_uint(next), "InvalidNumber")
        ELSE Fatal(st2, "Panic", Null)

\* the token arg names opt: `--long_arg`, or a single short option `-c`
\* with c the short name
NameMatches(arg, opt) ==
    \/ (ccli__is_long_opt(arg) /\ ccli__long_opt_eq(arg, opt.long_arg))
    \/ (ccli__short_opt_kind(arg) = "ccli_short_single" /\ CharAt(arg, 1, NUL) = opt.short_arg)

\* the loop over the option table for one token that is neither a sentinel
\* nor a `=` token, from options[k] on (idx: the active command index)
RECURSIVE MatchOptions(_, _, _, _, _, _)
MatchOptions(r, args, idx, arg, st, k) ==
    IF st.outcome # "running" \/ k > ccli__opt_len(st.options) THEN st
    ELSE LET opt == st.options[k]
             is_long == ccli__is_long_opt(arg)
             short_opt == ccli__short_opt_kind(arg)
             is_positional == ~is_long /\ short_opt = "ccli_short_none"
         IN  IF ~InScope(opt, idx)
             THEN MatchOptions(r, args, idx, arg, st, k + 1)
             ELSE IF /\ is_positional
                     /\ ccli_option_is_positional(opt)
                     /\ (r = "ccli" => ~ccli_option_is_matched(opt))
             THEN MatchOptions(r, args, idx, arg,
                               IF r = "ccli" THEN ccli_positional(st, k, arg)
                               ELSE cli_positional(st, k, arg), k + 1)
             ELSE IF NameMatches(arg, opt)
             THEN MatchOptions(r, args, idx, arg, NamedOption(r, args, st, k), k + 1)
             ELSE IF ~is_long /\ short_opt = "ccli_short_multiple"
             THEN Fatal(st, "Unsupported", Null)
             ELSE MatchOptions(r, args, idx, arg, st, k + 1)

\* a variant of MatchEnd with the unknown-argument error alone
MatchEnd_unknown_only(r, arg, after) ==
    IF after.outcome # "running" \/ after.matched_arg THEN after
    ELSE Fatal(after, "UnknownArgument", arg)

\* the test of matched_arg after the table loop
MatchEnd(r, arg, after) ==
    IF after.outcome # "running" \/ after.matched_arg THEN after
    ELSE IF r = "ccli" /\ ~ccli__is_long_opt(arg) /\ ccli__short_opt_kind(arg) = "ccli_short_none"
    THEN Fatal(after, "ExcessPositional", arg)
    ELSE Fatal(after, "UnknownArgument", arg)

\* one pass of the main loop's body for such a token: the table loop, then
\* the test of matched_arg
MatchArg(r, args, idx, st) ==
    MatchEnd(r, args[st.argc_idx + 1],
             MatchOptions(r, args, idx, args[st.argc_idx + 1],
                          [st EXCEPT !.matched_arg = FALSE], 1))

\* a variant of EqualsStore that sets a boolean option as the main loop does,
\* whatever the text after the `=`
EqualsStore_sets_flag(r, st, k, param) ==
    LET typ == ccli_option_type(st.options[k])
        st1 == [st EXCEPT !.matched_arg = TRUE,
                          !.options[k] = ccli_option_set_matched(st.options[k])]
    IN  IF typ = ccli_boolean THEN [st1 EXCEPT !.data[k] = BoolVal]
        ELSE IF typ = ccli_string THEN [st1 EXCEPT !.data[k] = StrVal(param)]
        ELSE IF typ = ccli_number
        THEN StoreSigned(st1, st1, k, ccli_try_parse_int(param), "InvalidNumber")
        ELSE IF typ = ccli_unumber
        THEN StoreUnsigned(r, st1, st1, k, ccli_try_parse_uint(param), "InvalidNumber")
        ELSE Fatal(st1, "Panic", Null)

\* the store of parse_equals for the matched options[k]; param is the text
\* after the first `=`
EqualsStore(r, st, k, param) ==
    LET opt == st.options[k]
        typ == ccli_option_type(st.options[k])
        st1 == [st EXCEPT !.matched_arg = TRUE,
                          !.options[k] = ccli_option_set_matched(st.options[k])]
    IN  IF typ = ccli_boolean THEN Fatal(st1, "UsageError", opt.long_arg)
        ELSE IF typ = ccli_string THEN [st1 EXCEPT !.data[k] = StrVal(param)]
        ELSE IF typ = ccli_number
        THEN StoreSigned(st1, st1, k, ccli_try_parse_int(param), "InvalidNumber")
        ELSE IF typ = ccli_unumber
        THEN StoreUnsigned(r, st1, st1, k, ccli_try_parse_uint(param), "InvalidNumber")
        ELSE Fatal(st1, "Panic", Null)

\* the test of parse_equals that opt_str, the text before the first `=`,
\* names opt; stray is the byte found at opt_str[1] when opt_str is empty
EqualsMatches(opt_str, opt, stray) ==
    \/ CharAt(opt_str, 1, stray) = opt.short_arg
    \/ ccli__long_opt_eq(opt_str, opt.long_arg)

\* the loop of parse_equals over the option table, from options[k] on
RECURSIVE EqualsOptions(_, _, _, _, _, _, _)
EqualsOptions(r, idx, opt_str, param, stray, st, k) ==
    IF st.outcome # "running" \/ k > ccli__opt_len(st.options) THEN st
    ELSE IF ~InScope(st.options[k], idx)
    THEN EqualsOptions(r, idx, opt_str, param, stray, st, k + 1)
    ELSE IF EqualsMatches(opt_str, st.options[k], stray)
    THEN EqualsOptions(r, idx, opt_str, param, stray, EqualsStore(r, st, k, param), k + 1)
    ELSE EqualsOptions(r, idx, opt_str, param, stray, st, k + 1)

\* the test of matched_arg after the table loop of parse_equals
EqualsEnd(r, arg, opt_str, after) ==
    IF after.outcome # "running" \/ after.matched_arg THEN after
    ELSE Fatal(after, "UnknownArgument", IF r = "ccli" THEN opt_str ELSE arg)

\* a variant of ParseEquals whose value text starts at the `=` itself
ParseEquals_keeps_sign(r, idx, arg, stray, st) ==
    EqualsEnd(r, arg, SubSeq(arg, 1, ccli_stridx(arg, "=")),
              EqualsOptions(r, idx, SubSeq(arg, 1, ccli_stridx(arg, "=")),
                            StrFrom(arg, ccli_stridx(arg, "=")), stray,
                            [st EXCEPT !.matched_arg = FALSE], 1))

\* ccli__parse_equals and _cli_parse_equals on the token arg
ParseEquals(r, idx, arg, stray, st) ==
    EqualsEnd(r, arg, SubSeq(arg, 1, ccli_stridx(arg, "=")),
              EqualsOptions(r, idx, SubSeq(arg, 1, ccli_stridx(arg, "=")),
                            StrFrom(arg, ccli_stridx(arg, "=") + 1), stray,
                            [st EXCEPT !.matched_arg = FALSE], 1))

\* every option that is positional and unmatched, whatever its scope, takes
\* the token: the inner loop of ccli__parse_remaining_positionals
RECURSIVE ccli_fill_positionals(_, _, _)
ccli_fill_positionals(st, k, arg) ==
    IF st.outcome # "running" \/ k > ccli__opt_len(st.options) THEN st
    ELSE IF ~ccli_option_is_matched(st.options[k]) /\ ccli_option_is_positional(st.options[k])
    THEN ccli_fill_positionals(
             StoreByType([st EXCEPT !.options[k] = ccli_option_set_matched(st.options[k])],
                         k, arg), k + 1, arg)
    ELSE ccli_fill_positionals(st, k + 1, arg)

\* the inner loop of _cli_parse_remaining_positionals
RECURSIVE cli_fill_positionals(_, _, _)
cli_fill_positionals(st, k, arg) ==
    IF k > ccli__opt_len(st.options) THEN st
    ELSE IF ~ccli_option_is_matched(st.options[k]) /\ ccli_option_is_positional(st.options[k])
    THEN cli_fill_positionals(
             [st EXCEPT !.options[k] = ccli_option_set_matched(st.options[k]),
                        !.data[k] = StrVal(arg)], k + 1, arg)
    ELSE cli_fill_positionals(st, k + 1, arg)

\* ccli.h line 691: the token is passed over when it is "--" or is not "-"
ccli_skips(arg) == ccli_streq(arg, s_dd) \/ ~ccli_streq(arg, s_d)

\* cli.h line 819: the token is passed over when it is "--" or "-"
cli_skips(arg) == arg = s_dd \/ arg = s_d

\* the outer loop of parse_remaining_positionals, from argv[i] on
RECURSIVE RemainingLoop(_, _, _, _)
RemainingLoop(r, args, st, i) ==
    IF st.outcome # "running" \/ i >= Len(args) THEN st
    ELSE IF (IF r = "ccli" THEN ccli_skips(args[i + 1]) ELSE cli_skips(args[i + 1]))
    THEN RemainingLoop(r, args, st, i + 1)
    ELSE RemainingLoop(r, args,
                       IF r = "ccli" THEN ccli_fill_positionals(st, 1, args[i + 1])
                       ELSE cli_fill_positionals(st, 1, args[i + 1]),
                       i + 1)

\* ccli__parse_remaining_positionals and _cli_parse_remaining_positionals,
\* called with the sentinel's index st.argc_idx
ParseRemainingPositionals(r, commands, subcommand, args, st) ==
    LET pos_arg_count == ccli__pos_args_len(st.options, commands, subcommand)
    IN  IF Len(args) - st.argc_idx - 1 > pos_arg_count
        THEN Fatal(st, "TooManyPositionals", Null)
        ELSE RemainingLoop(r, args, st, st.argc_idx)

\* a variant of ccli__check_unmatched without the scope test
ccli__check_unmatched_any_scope(idx, opts) ==
    LET missing(k) == /\ ~ccli_option_is_matched(opts[k])
                      /\ ccli_option_is_required(opts[k])
    IN  IF \E k \in 1..ccli__opt_len(opts) : missing(k)
        THEN CHOOSE k \in 1..ccli__opt_len(opts) : missing(k) /\ \A j \in 1..(k - 1) : ~missing(j)
        ELSE 0

\* the first required option in scope that is unmatched, 0 when none is
ccli__check_unmatched(idx, opts) ==
    LET missing(k) == /\ InScope(opts[k], idx % 256)
                      /\ ~ccli_option_is_matched(opts[k])
                      /\ ccli_option_is_required(opts[k])
    IN  IF \E k \in 1..ccli__opt_len(opts) : missing(k)
        THEN CHOOSE k \in 1..ccli__opt_len(opts) : missing(k) /\ \A j \in 1..(k - 1) : ~missing(j)
        ELSE 0

\* ------------------------------------------------------------------------
\* The main loop and the end of the parse
\* ------------------------------------------------------------------------

Cur == [options |-> options, data |-> data, argc_idx |-> argc_idx,
        matched_arg |-> FALSE, outcome |-> "running", culprit |-> Null]

\* a variant of Apply in which the loop's increment skips a token
Apply_skipping(st, nextpc, bump) ==
    /\ options' = st.options
    /\ data' = st.data
    /\ argc_idx' = (IF st.outcome = "running" THEN st.argc_idx + bump + bump ELSE argc_idx)
    /\ IF st.outcome = "running"
       THEN pc' = nextpc /\ UNCHANGED <<outcome, culprit>>
       ELSE Exit(st.outcome, st.culprit)
    /\ UNCHANGED <<call, entry, rev, table, subcommands, argv, cmd_idx, result>>

\* the variables after a step that left st; bump is the loop's argc_idx++,
\* which an exit() inside the step never reaches: argc_idx then stays at the
\* token the step was working on
Apply(st, nextpc, bump) ==
    /\ options' = st.options
    /\ data' = st.data
    /\ argc_idx' = (IF st.outcome = "running" THEN st.argc_idx + bump ELSE argc_idx)
    /\ IF st.outcome = "running"
       THEN pc' = nextpc /\ UNCHANGED <<outcome, culprit>>
       ELSE Exit(st.outcome, st.culprit)
    /\ UNCHANGED <<call, entry, rev, table, subcommands, argv, cmd_idx, result>>

IsSentinel(arg) == ccli_streq(arg, s_dd) \/ ccli_streq(arg, s_d)

\* the token is "--" or "-": the rest of argv goes to the positionals
Sentinel ==
    /\ pc = "loop"
    /\ argc_idx < argc
    /\ IsSentinel(Arg(argc_idx))
    /\ Apply(ParseRemainingPositionals(rev, subcommands, Subcommand(cmd_idx), argv, Cur),
             "check", 0)

\* the token contains `=`
Equals ==
    /\ pc = "loop"
    /\ argc_idx < argc
    /\ ~IsSentinel(Arg(argc_idx))
    /\ ccli_strcontains(Arg(argc_idx), "=")
    /\ \E stray \in StrayBytes :
         Apply(ParseEquals(rev, cmd_idx, Arg(argc_idx), stray, Cur), "loop", 1)

\* any other token
Match ==
    /\ pc = "loop"
    /\ argc_idx < argc
    /\ ~IsSentinel(Arg(argc_idx))
    /\ ~ccli_strcontains(Arg(argc_idx), "=")
    /\ Apply(MatchArg(rev, argv, cmd_idx, Cur), "loop", 1)

\* the loop of _cli_check_mutual_exclusions over the options for the entry
\* ex, from options[i] on
RECURSIVE ExclusionScan(_, _, _, _, _)
ExclusionScan(idx, opts, ex, i, acc) ==
    IF i > ccli__opt_len(opts) THEN acc
    ELSE IF /\ ~ccli_option_is_global(opts[i])
            /\ ccli_option_subcmd(opts[i]) # idx
            /\ (ccli_streq(ex.one, opts[i].long_arg) \/ ccli_streq(ex.other, opts[i].long_arg))
    THEN [acc EXCEPT !.irrelevant = TRUE]
    ELSE IF ccli_streq(ex.one, opts[i].long_arg)
    THEN ExclusionScan(idx, opts, ex, i + 1,
                       [acc EXCEPT !.one_matched = ccli_option_is_matched(opts[i]),
                                   !.both_required = @ /\ ccli_option_is_required(opts[i])])
    ELSE IF ccli_streq(ex.other, opts[i].long_arg)
    THEN ExclusionScan(idx, opts, ex, i + 1,
                       [acc EXCEPT !.other_matched = ccli_option_is_matched(opts[i]),
                                   !.both_required = @ /\ ccli_option_is_required(opts[i])])
    ELSE ExclusionScan(idx, opts, ex, i + 1, acc)

\* a variant of ExclusionVerdict that applies an entry in every scope
ExclusionVerdict_any_scope(ex, acc) ==
    IF ~acc.one_matched /\ ~acc.other_matched /\ acc.both_required THEN "OneRequired"
    ELSE IF acc.one_matched /\ acc.other_matched THEN "MutuallyExclusive"
    ELSE "ok"

\* the two tests made on an entry once the options are scanned
ExclusionVerdict(ex, acc) ==
    IF acc.irrelevant THEN "ok"
    ELSE IF ~acc.one_matched /\ ~acc.other_matched /\ acc.both_required THEN "OneRequired"
    ELSE IF acc.one_matched /\ acc.other_matched THEN "MutuallyExclusive"
    ELSE "ok"

\* the loop over the entries, from exclusions[e] on
RECURSIVE ExclusionsFrom(_, _, _, _)
ExclusionsFrom(idx, opts, exclusions, e) ==
    IF e > Len(exclusions) THEN [outcome |-> "ok", culprit |-> Null]
    ELSE IF exclusions[e].other = Null
    THEN [outcome |-> "ConfigError", culprit |-> exclusions[e].one]
    ELSE IF Len(exclusions[e].one) = 0 \/ Len(exclusions[e].other) = 0
    THEN [outcome |-> "ConfigError", culprit |-> exclusions[e].one]
    ELSE IF ExclusionVerdict(exclusions[e],
                             ExclusionScan(idx, opts, exclusions[e], 1,
                                           [one_matched |-> FALSE, other_matched |-> FALSE,
                                            both_required |-> TRUE, irrelevant |-> FALSE])) # "ok"
    THEN [outcome |-> ExclusionVerdict(exclusions[e],
                                       ExclusionScan(idx, opts, exclusions[e], 1,
                                           [one_matched |-> FALSE, other_matched |-> FALSE,
                                            both_required |-> TRUE, irrelevant |-> FALSE])),
          culprit |-> exclusions[e].one]
    ELSE ExclusionsFrom(idx, opts, exclusions, e + 1)

\* _cli_check_mutual_exclusions: "ok" when it returns, the error otherwise
cli_check_mutual_exclusions(idx, opts, exclusions) ==
    ExclusionsFrom(idx % 256, opts, exclusions, 1)

\* _cli_check_unmatched: the first required option in scope that is
\* unmatched and named by no exclusion entry, 0 when there is none
cli_check_unmatched(idx, opts, exclusions) ==
    LET missing(k) == /\ InScope(opts[k], idx % 256)
                      /\ ~ccli_option_is_matched(opts[k])
                      /\ ccli_option_is_required(opts[k])
                      /\ ~\E e \in 1..Len(exclusions) :
                             \/ ccli_streq(exclusions[e].one, opts[k].long_arg)
                             \/ ccli_streq(exclusions[e].other, opts[k].long_arg)
    IN  IF \E k \in 1..ccli__opt_len(opts) : missing(k)
        THEN CHOOSE k \in 1..ccli__opt_len(opts) : missing(k) /\ \A j \in 1..(k - 1) : ~missing(j)
        ELSE 0

\* the first option the required check of the revision reports, 0 when none
FirstUnmatched(r) ==
    IF r = "ccli" THEN ccli__check_unmatched(cmd_idx, options)
    ELSE cli_check_unmatched(cmd_idx, options, mutual_exclusions)

\* the end of the parse, after the loop or the sentinel: cli_parse_opts
\* checks the exclusions, both revisions check the required options, and
\* the function returns
CheckUnmatched ==
    /\ \/ pc = "check"
       \/ (pc = "loop" /\ argc_idx >= argc)
    /\ IF rev = "cli" /\ cli_check_mutual_exclusions(cmd_idx, options, mutual_exclusions).outcome # "ok"
       THEN /\ Exit(cli_check_mutual_exclusions(cmd_idx, options, mutual_exclusions).outcome,
                    cli_check_mutual_exclusions(cmd_idx, options, mutual_exclusions).culprit)
            /\ UNCHANGED result
       ELSE IF FirstUnmatched(rev) # 0
       THEN /\ Exit("MissingRequired", options[FirstUnmatched(rev)].long_arg)
            /\ UNCHANGED result
       ELSE /\ Exit("return", Null)
            /\ result' = (IF cmd_idx = 1 THEN Null ELSE subcommands[cmd_idx - 1])
    /\ UNCHANGED <<call, entry, rev, table, subcommands, options, data, argv, cmd_idx, argc_idx>>

Next == Validate \/ RunCommand \/ FindHelp \/ Sentinel \/ Equals \/ Match \/ CheckUnmatched

Spec == Init /\ [][Next]_vars

\* ------------------------------------------------------------------------
\* A second parse on the same tables
\* ------------------------------------------------------------------------

\* a variant of Again in which the caller resets the params fields first
Again_reset ==
    /\ pc = "done" /\ outcome = "return"
    /\ entry = Tables[table].options
    /\ options' = Tables[table].options
    /\ entry' = options'
    /\ argv' \in { <<s_prog>> \o a : a \in ArgLists(Tables[table].tokens, MaxArgsAgain) }
    /\ pc' = "validate"
    /\ cmd_idx' = 0
    /\ argc_idx' = 0
    /\ outcome' = "running"
    /\ culprit' = Null
    /\ result' = Null
    /\ UNCHANGED <<call, rev, table, subcommands, data>>

\* the parse function has returned from its first call and the caller calls
\* it again with the same subcommands and options, as the first call left
\* them, and another argv
Again ==
    /\ pc = "done" /\ outcome = "return"
    /\ entry = Tables[table].options
    /\ entry' = options
    /\ argv' \in { <<s_prog>> \o a : a \in ArgLists(Tables[table].tokens, MaxArgsAgain) }
    /\ pc' = "validate"
    /\ cmd_idx' = 0
    /\ argc_idx' = 0
    /\ outcome' = "running"
    /\ culprit' = Null
    /\ result' = Null
    /\ UNCHANGED <<call, rev, table, subcommands, options, data>>

AgainNext == Next \/ Again

AgainSpec == Init /\ [][AgainNext]_vars

\* ------------------------------------------------------------------------
\* Calls of ccli_params, of the token classifier and of the number parsers
\* on their own
\* ------------------------------------------------------------------------

\* the longest token handed to the classifier
MaxLen == 4

Kinds == {ccli_boolean, ccli_string, ccli_number, ccli_unumber}

\* the values the cmd field of params has room for
ScopeValues == 0..(CCLI_ARG_CMD_MASK \div (CCLI_ARG_TYP_MASK + 1))

TokenChars == {"-", "x", "="}

TokenTexts == UNION { [1..n -> TokenChars] : n \in 0..MaxLen }

Rep(c, n) == [i \in 1..n |-> c]

s_int64_max == <<"9", "2", "2", "3", "3", "7", "2", "0", "3", "6", "8", "5", "4", "7", "7",
                 "5", "8", "0", "7">>
s_int64_over == <<"9", "2", "2", "3", "3", "7", "2", "0", "3", "6", "8", "5", "4", "7", "7",
                  "5", "8", "0", "8">>
s_uint64_max == <<"1", "8", "4", "4", "6", "7", "4", "4", "0", "7", "3", "7", "0", "9", "5",
                  "5", "1", "6", "1", "5">>
s_uint64_over == <<"1", "8", "4", "4", "6", "7", "4", "4", "0", "7", "3", "7", "0", "9", "5",
                   "5", "1", "6", "1", "6">>

\* texts of numbers in the three bases, within and beyond 64 bits
NumberTexts ==
    { s_5, <<"4", "2">>, s_int64_max, s_int64_over, s_uint64_max, s_uint64_over,
      Rep("9", 20),
      <<"0", "x", "1", "0">>, <<"0", "x">> \o Rep("f", 16), <<"0", "x", "1">> \o Rep("0", 16),
      <<"0", "b", "1", "0", "1">>, <<"0", "b">> \o Rep("1", 64),
      <<"0", "b", "1">> \o Rep("0", 64) }

Pending(fn, args) == [fn |-> fn, args |-> args, done |-> FALSE, out |-> <<>>]

Calls ==
    { Pending("ccli_params", <<typ, req, pos, cmd>>) :
          typ \in Kinds, req \in 0..1, pos \in 0..1, cmd \in ScopeValues }
    \cup { Pending("classify", <<t>>) : t \in TokenTexts }
    \cup { Pending(fn, <<t>>) : fn \in {"ccli_try_parse_int", "ccli_try_parse_uint"},
                               t \in NumberTexts }

FnInit ==
    /\ call \in Calls
    /\ rev = "ccli"
    /\ table = 0
    /\ subcommands = <<>>
    /\ options = <<>>
    /\ data = <<>>
    /\ argv = <<>>
    /\ pc = "call"
    /\ cmd_idx = 0
    /\ argc_idx = 0
    /\ outcome = "running"
    /\ culprit = Null
    /\ result = Null
    /\ entry = <<>>

Return(value) ==
    /\ call' = [call EXCEPT !.done = TRUE, !.out = value]
    /\ UNCHANGED <<entry, rev, table, subcommands, options, data, argv, pc, cmd_idx,
                   argc_idx, outcome, culprit, result>>

\* what the main loop computes of a token before it looks at the options
TokenClass(arg) ==
    [is_long |-> ccli__is_long_opt(arg),
     short_opt |-> ccli__short_opt_kind(arg),
     is_positional |-> ~ccli__is_long_opt(arg) /\ ccli__short_opt_kind(arg) = "ccli_short_none",
     is_option |-> ccli__is_option(arg)]

\* an option initialiser's params field
CallParams ==
    /\ call.fn = "ccli_params" /\ ~call.done
    /\ Return([params |-> ccli_params(call.args[1], call.args[2], call.args[3],
                                      call.args[4])])

CallClassifier ==
    /\ call.fn = "classify" /\ ~call.done
    /\ Return(TokenClass(call.args[1]))

CallParseInt ==
    /\ call.fn = "ccli_try_parse_int" /\ ~call.done
    /\ Return(ccli_try_parse_int(call.args[1]))

CallParseUint ==
    /\ call.fn = "ccli_try_parse_uint" /\ ~call.done
    /\ Return(ccli_try_parse_uint(call.args[1]))

FnNext == CallParams \/ CallClassifier \/ CallParseInt \/ CallParseUint

FnSpec == FnInit /\ [][FnNext]_vars

\* ------------------------------------------------------------------------
\* Properties: vocabulary
\* ------------------------------------------------------------------------

Opts == 1..Len(options)

\* options[k] is global, or root-only while no subcommand is active, or
\* bound to the active subcommand
ScopeOk(k) ==
    LET s == ccli_option_subcmd(options[k])
    IN  \/ s = ccli_scope_global
        \/ (s = ccli_scope_root /\ cmd_idx = 1)
        \/ (s >= 2 /\ cmd_idx >= 2 /\ s = cmd_idx)

HasEq(t) == \E i \in 1..Len(t) : t[i] = "="

\* the text of a `=` token before its first `=`
NamePart(t) ==
    SubSeq(t, 1, (CHOOSE i \in 1..Len(t) : t[i] = "=" /\ \A j \in 1..(i - 1) : t[j] # "=") - 1)

\* name is exactly `--<long name>` or `-c` of options[k]
Names(name, k) ==
    \/ name = Dashes(options[k].long_arg)
    \/ (options[k].short_arg # NUL /\ name = Short(options[k].short_arg))

\* the index of the first token after the program name and the subcommand
FirstToken == IF cmd_idx > 1 THEN 2 ELSE 1

\* the parse got past validation and the help scan
Scanning == pc \in {"loop", "check", "done"} /\ outcome \notin {"ArgvError", "ConfigError", "help"}

\* the main loop is about to work on the token argv[argc_idx]
AtToken == pc = "loop" /\ argc_idx < argc

\* the parse ended inside the main loop's work on the token argv[argc_idx]
EndedAtToken == pc = "done" /\ Scanning /\ argc_idx >= 1 /\ argc_idx < argc

Changed(k) == options'[k] # options[k] \/ data'[k] # data[k]

Untouched == options = Tables[table].options /\ \A k \in Opts : data[k] = Unset

\* ------------------------------------------------------------------------
\* C1
\* ------------------------------------------------------------------------

\* the rank of options[k] among the positional options in scope
PosRank(k) == Cardinality({ j \in 1..k : ccli_option_is_positional(options[j]) /\ ScopeOk(j) })

OnlyPositionalTokens ==
    /\ pc = "done" /\ Scanning
    /\ argc > FirstToken
    /\ \A i \in FirstToken..(argc - 1) :
         ~ccli__is_option(Arg(i)) /\ ~HasEq(Arg(i)) /\ Arg(i) \notin {s_dd, s_d}
    /\ argc - FirstToken <= Cardinality({ k \in Opts : ccli_option_is_positional(options[k])
                                                       /\ ScopeOk(k) })
    /\ \A k \in Opts : ccli_option_is_positional(options[k]) /\ ScopeOk(k)
                         => ccli_option_type(options[k]) = ccli_string

\* C1: when argv holds only positional-shaped tokens, no more of them than
\* there are positional options in scope, the i-th token is stored in the
\* i-th positional option in scope and in no other.
C1_PositionalsInOrder ==
    OnlyPositionalTokens =>
        \A k \in Opts : ccli_option_is_positional(options[k]) /\ ScopeOk(k) =>
            IF PosRank(k) <= argc - FirstToken
            THEN data[k] = StrVal(Arg(FirstToken + PosRank(k) - 1))
            ELSE data[k] = Unset

\* ------------------------------------------------------------------------
\* C2
\* ------------------------------------------------------------------------

\* the main loop met the sentinel argv[argc_idx] and the parse has ended
SentinelTaken ==
    /\ pc = "done" /\ Scanning
    /\ argc_idx >= 1 /\ argc_idx < argc
    /\ Arg(argc_idx) \in {s_dd, s_d}

\* C2: after a sentinel `--` or `-`, every later token is stored in a
\* positional option in scope, the required-option check runs and the parse
\* returns (more tokens than positional options, and the exclusions of
\* cli_parse_opts, aside).
C2_SentinelTail ==
    /\ SentinelTaken /\ outcome # "TooManyPositionals"
    /\ rev = "cli" => mutual_exclusions = <<>>
    =>
        /\ outcome \in {"return", "MissingRequired"}
        /\ \A i \in (argc_idx + 1)..(argc - 1) :
             \E k \in Opts : /\ ccli_option_is_positional(options[k])
                             /\ ScopeOk(k)
                             /\ ccli_option_is_matched(options[k])
                             /\ data[k] = StrVal(Arg(i))
        /\ \A k \in Opts : ~ScopeOk(k) => data[k] = Unset

\* ------------------------------------------------------------------------
\* C3
\* ------------------------------------------------------------------------

\* some token at index >= 1 is `--help` or `-h` and no `--` or `-` precedes it
HelpAsked ==
    \E i \in 1..(argc - 1) :
        /\ Arg(i) \in {Dashes(s_help), Short("h")}
        /\ \A j \in 1..(i - 1) : Arg(j) \notin {s_dd, s_d}

\* C3: for a table that passes validation, the parse ends in help exactly
\* when `--help` or `-h` stands at an index >= 1 before the first `--` or
\* `-`; then no option's matched flag or destination changes and no usage
\* error is reported.
C3_HelpIffAsked ==
    ccli__validate_options(Tables[table].options) = 0 =>
        /\ pc = "done" => (outcome = "help" <=> HelpAsked)
        /\ HelpAsked => Untouched /\ outcome \in {"running", "help"}

\* help wins over a token before it that would otherwise be a usage error
C3_Witness ==
    /\ outcome = "help"
    /\ argc = 3
    /\ Arg(1) \notin {Dashes(s_help), Short("h")}
    /\ Arg(2) \in {Dashes(s_help), Short("h")}

\* ------------------------------------------------------------------------
\* C4
\* ------------------------------------------------------------------------

\* the required options in scope that are unmatched
MissingRequired ==
    { k \in Opts : ScopeOk(k) /\ ccli_option_is_required(options[k])
                   /\ ~ccli_option_is_matched(options[k]) }

\* the tokens are used up or a sentinel was met: the final check has run
FinalCheckRan ==
    /\ pc = "done" /\ Scanning
    /\ \/ argc_idx >= argc
       \/ (Arg(argc_idx) \in {s_dd, s_d} /\ outcome # "TooManyPositionals")

\* C4: ccli_parse_opts ends in the missing-required error, naming the first
\* required option in scope that is unmatched, when there is one once the
\* tokens are used up; it returns only with every such option matched.
C4_RequiredCheck ==
    rev = "ccli" =>
        /\ FinalCheckRan =>
             IF MissingRequired # {}
             THEN /\ outcome = "MissingRequired"
                  /\ \E k \in MissingRequired :
                       /\ culprit = options[k].long_arg
                       /\ \A j \in MissingRequired : k <= j
             ELSE outcome = "return"
        /\ outcome = "return" => MissingRequired = {}

\* under a subcommand, a required option bound to it is reported while other
\* options were matched
C4_Witness ==
    /\ rev = "ccli"
    /\ outcome = "MissingRequired"
    /\ cmd_idx > 1
    /\ \E k \in Opts : ccli_option_is_matched(options[k])

\* ------------------------------------------------------------------------
\* C5
\* ------------------------------------------------------------------------

\* the main loop is at the token `--<long name>` of the non-boolean option k
\* in scope, and a token v follows it
TwoTokenForm(k) ==
    /\ AtToken
    /\ argc_idx + 1 < argc
    /\ Arg(argc_idx) = Dashes(options[k].long_arg)
    /\ ScopeOk(k)
    /\ ccli_option_type(options[k]) # ccli_boolean

\* the main loop's work on the two tokens `--name v`
TwoTokens == MatchArg(rev, argv, cmd_idx, Cur)

\* parse_equals on the one token `--name=v` in the same state
OneToken(stray) ==
    ParseEquals(rev, cmd_idx, Assign(Arg(argc_idx), Arg(argc_idx + 1)), stray, Cur)

StoredAlike(k, two, one) ==
    two.outcome = "running" => one.outcome = "running" /\ one.data[k] = two.data[k]

StoresAlike(k, two, one) == one.data[k] = two.data[k]

\* C5 as amended: for every non-boolean kind and every text v, whenever the
\* two tokens `--name v` store a value, the token `--name=v` stores the same
\* value.
C5_EqualsFormAgrees ==
    \A k \in Opts : TwoTokenForm(k) =>
        \A stray \in StrayBytes : StoredAlike(k, TwoTokens, OneToken(stray))

\* C5 as written: for every non-boolean kind and every text v, the token
\* `--name=v` stores the same value as the two tokens `--name v`.
C5_EqualsFormSame ==
    \A k \in Opts : TwoTokenForm(k) =>
        \A stray \in StrayBytes : StoresAlike(k, TwoTokens, OneToken(stray))

\* the two tokens `--num -5` store a number, which the one token stores too
C5_Witness ==
    \E k \in Opts :
        /\ TwoTokenForm(k)
        /\ ccli_option_type(options[k]) = ccli_number
        /\ Arg(argc_idx + 1) = s_m5
        /\ TwoTokens.outcome = "running"
        /\ TwoTokens.data[k] # data[k]
        /\ OneToken(NUL).data[k] = TwoTokens.data[k]

\* ------------------------------------------------------------------------
\* C6
\* ------------------------------------------------------------------------

\* the name a token gives: the text before the first `=`, or the whole token
TokenName(t) == IF HasEq(t) THEN NamePart(t) ELSE t

C6_Step ==
    AtToken /\ (\E k \in Opts : Names(TokenName(Arg(argc_idx)), k)) =>
        /\ \A k \in Opts : Changed(k) => ScopeOk(k)
        /\ \A k \in Opts :
             Names(TokenName(Arg(argc_idx)), k) /\ ccli_option_is_global(options[k])
                 => ccli_option_is_matched(options'[k])
        /\ (\A k \in Opts : Names(TokenName(Arg(argc_idx)), k) => ~ScopeOk(k))
               => outcome' = "UnknownArgument" /\ UNCHANGED <<options, data>>

\* C6: a named token changes only options in scope (global, root-only under
\* the root, or bound to the active subcommand); a global option it names is
\* matched under the root and under every subcommand; a token that names
\* only options out of scope ends the parse in the unknown-argument error.
C6_ScopedMatching == [][C6_Step]_vars

\* under a subcommand the global option was matched and then a root-only
\* option was refused
C6_Witness ==
    /\ cmd_idx > 1
    /\ outcome = "UnknownArgument"
    /\ EndedAtToken
    /\ \E k \in Opts : Names(TokenName(Arg(argc_idx)), k) /\ ~ScopeOk(k)
    /\ \E k \in Opts : ccli_option_is_global(options[k]) /\ ccli_option_is_matched(options[k])

\* ------------------------------------------------------------------------
\* C7
\* ------------------------------------------------------------------------

\* 1 for the root, i + 1 for the first entry i of the table that equals argv[1]
ExpectedCommand ==
    IF argc <= 1 \/ \A i \in 1..Len(subcommands) : subcommands[i] # Arg(1)
    THEN 1
    ELSE 1 + CHOOSE i \in 1..Len(subcommands) :
                 subcommands[i] = Arg(1) /\ \A j \in 1..(i - 1) : subcommands[j] # Arg(1)

C7_Step ==
    /\ pc = "run_command" => cmd_idx' = ExpectedCommand
    /\ pc = "find_help" /\ pc' = "loop" =>
           argc_idx' = (IF ExpectedCommand > 1 THEN 2 ELSE 1)
    /\ outcome' = "return" /\ outcome # "return" =>
           result' = (IF ExpectedCommand > 1 THEN subcommands[ExpectedCommand - 1] ELSE Null)

\* C7: the active subcommand is the first table entry equal to argv[1], the
\* root when argc is 1 or no entry is equal; the scan of the tokens starts at
\* index 2 under a subcommand and at 1 under the root; a return yields the
\* subcommand's name.
C7_ActiveSubcommand == [][C7_Step]_vars

\* of two entries with the same name the first is active, and the parse
\* returns its name
C7_Witness ==
    /\ outcome = "return"
    /\ cmd_idx = 2
    /\ result = s_build
    /\ Cardinality({ i \in 1..Len(subcommands) : subcommands[i] = Arg(1) }) = 2

\* ------------------------------------------------------------------------
\* C8
\* ------------------------------------------------------------------------

\* a single `-`, then two or more characters, no `=`
Clustered(t) == Len(t) >= 3 /\ t[1] = "-" /\ t[2] # "-" /\ ~HasEq(t)

C8_Step ==
    AtToken /\ Clustered(Arg(argc_idx)) =>
        outcome' = "Unsupported" /\ UNCHANGED <<options, data>>

\* C8: a clustered short token ends the parse in the unsupported error for
\* every table, the empty one and one without an option in scope included,
\* and changes no option.
C8_ClusteredUnsupported == [][C8_Step]_vars

\* ------------------------------------------------------------------------
\* C9
\* ------------------------------------------------------------------------

C9_Step ==
    AtToken /\ HasEq(Arg(argc_idx)) /\ Arg(argc_idx) \notin {s_dd, s_d} =>
        /\ \A k \in Opts :
             ~ccli_option_is_matched(options[k]) /\ ccli_option_is_matched(options'[k])
                 => Names(NamePart(Arg(argc_idx)), k) /\ ScopeOk(k)
        /\ (\A k \in Opts : ~(Names(NamePart(Arg(argc_idx)), k) /\ ScopeOk(k)))
               => outcome' = "UnknownArgument" /\ UNCHANGED <<options, data>>

\* C9: a `=` token marks an option matched only if its name part is exactly
\* `--<long name>` or `-c` of an option in scope; any other name part ends
\* the parse in the unknown-argument error and changes no option.
C9_EqualsExactName == [][C9_Step]_vars

\* ------------------------------------------------------------------------
\* C10
\* ------------------------------------------------------------------------

C10_Step ==
    AtToken /\ HasEq(Arg(argc_idx)) /\ Arg(argc_idx) \notin {s_dd, s_d} =>
        /\ (\E k \in Opts : /\ Names(NamePart(Arg(argc_idx)), k)
                            /\ ScopeOk(k)
                            /\ ccli_option_type(options[k]) = ccli_boolean)
               => outcome' = "UsageError"
        /\ \A k \in Opts : ccli_option_type(options[k]) = ccli_boolean => data'[k] = data[k]

\* C10: a `name=value` token whose name part names a boolean option in scope
\* ends the parse in a usage error, and no `=` token ever writes the
\* destination of a boolean option.
C10_BooleanTakesNoValue == [][C10_Step]_vars

\* `-v=x` was refused with the boolean option's destination unset
C10_Witness ==
    /\ outcome = "UsageError"
    /\ EndedAtToken
    /\ HasEq(Arg(argc_idx))
    /\ \E k \in Opts : /\ Names(NamePart(Arg(argc_idx)), k)
                       /\ ccli_option_type(options[k]) = ccli_boolean
                       /\ data[k] = Unset

\* ------------------------------------------------------------------------
\* C11
\* ------------------------------------------------------------------------

\* the token after the one the main loop is at
NextToken == Arg(argc_idx + 1)

C11_Step ==
    /\ AtToken /\ ~HasEq(Arg(argc_idx)) =>
         \A k \in Opts :
             /\ Names(Arg(argc_idx), k)
             /\ ScopeOk(k)
             /\ ccli_option_type(options[k]) # ccli_boolean
             => IF \/ argc_idx + 1 >= argc
                   \/ (ccli_option_type(options[k]) = ccli_string /\ ccli__is_option(NextToken))
                THEN outcome' = "MissingArgument" /\ data' = data
                ELSE outcome' = "running" =>
                         /\ argc_idx' = argc_idx + 2
                         /\ data'[k] # Unset
                         /\ ccli_option_type(options[k]) = ccli_string
                                => data'[k] = StrVal(NextToken)
                         /\ \A j \in Opts : j # k => data'[j] = data[j]
    /\ outcome' = "return" =>
         \A k \in Opts :
             /\ ccli_option_is_matched(options'[k])
             /\ ~ccli_option_is_positional(options'[k])
             /\ ccli_option_type(options'[k]) # ccli_boolean
             => data'[k] # Unset

ParsedAs(k, text) ==
    IF ccli_option_type(options[k]) = ccli_number
    THEN ccli_try_parse_int(text)
    ELSE ccli_try_parse_uint(text)

NumberStored(k, res) ==
    IF res.ok
    THEN outcome' = "running" /\ argc_idx' = argc_idx + 2 /\ data'[k].n = res.val
    ELSE outcome' = "MissingArgument"

C12_Step ==
    AtToken /\ ~HasEq(Arg(argc_idx)) /\ argc_idx + 1 < argc /\ ccli__is_option(NextToken) =>
        \A k \in Opts :
            /\ Names(Arg(argc_idx), k)
            /\ ScopeOk(k)
            /\ ccli_option_type(options[k]) \in {ccli_number, ccli_unumber}
            => NumberStored(k, ParsedAs(k, NextToken))

\* C12: for a signed or unsigned option matched by name and followed by an
\* option-shaped token, the token is first parsed as a number of the
\* option's kind: if it parses it is stored and the cursor moves past it,
\* and the missing-argument error is raised only if it does not parse.
C12_NumberBeforeShape == [][C12_Step]_vars

\* ------------------------------------------------------------------------
\* C13
\* ------------------------------------------------------------------------

\* the text of a `=` token after its first `=`
ValuePart(t) == SubSeq(t, Len(NamePart(t)) + 2, Len(t))

TooLong(text) == Len(text) > CCLI_MAX_STR_LEN

\* the main loop's work on the token argv[argc_idx] stores a text over the
\* limit in the string option k, were it not for the limit
StoresTooLong(k) ==
    /\ ccli_option_type(options[k]) = ccli_string
    /\ ScopeOk(k)
    /\ \/ /\ HasEq(Arg(argc_idx))
          /\ Names(NamePart(Arg(argc_idx)), k)
          /\ TooLong(ValuePart(Arg(argc_idx)))
       \/ /\ ~HasEq(Arg(argc_idx))
          /\ Names(Arg(argc_idx), k)
          /\ argc_idx + 1 < argc
          /\ ~ccli__is_option(NextToken)
          /\ TooLong(NextToken)
       \/ /\ ~HasEq(Arg(argc_idx))
          /\ ~ccli__is_option(Arg(argc_idx))
          /\ Arg(argc_idx) \notin {s_dd, s_d}
          /\ ccli_option_is_positional(options[k])
          /\ ~ccli_option_is_matched(options[k])
          /\ TooLong(Arg(argc_idx))

C13_Step ==
    rev = "ccli" =>
        /\ \A k \in Opts : data'[k].tag = "str" => ~TooLong(data'[k].s)
        /\ AtToken /\ (\E k \in Opts : StoresTooLong(k)) => outcome' = "StringTooLong"

\* C13: in ccli.h, on every path that stores a string value (positional
\* token, two-token option, `--name=value` token, positional after a
\* sentinel) a value longer than CCLI_MAX_STR_LEN ends the parse in a fatal
\* error and the destination is not written.
C13_StringBound == [][C13_Step]_vars

\* ------------------------------------------------------------------------
\* C14
\* ------------------------------------------------------------------------

HexDigits == <<"0", "1", "2", "3", "4", "5", "6", "7", "8", "9", "a", "b", "c", "d", "e", "f">>

IsDigit(c, base) == \E n \in 1..base : HexDigits[n] = c

\* the value of a digit
Ord(c) == (CHOOSE n \in 1..Len(HexDigits) : HexDigits[n] = c) - 1

\* a decimal numeral without sign or leading zero
IsDecimal(t) ==
    /\ Len(t) >= 1
    /\ \A i \in 1..Len(t) : IsDigit(t[i], 10)
    /\ t[1] # "0" \/ Len(t) = 1

\* a numeral with the prefix `0x` or `0b` and no leading zero after it
IsPrefixed(t, letter, base) ==
    /\ Len(t) > 2
    /\ t[1] = "0" /\ t[2] = letter /\ t[3] # "0"
    /\ \A i \in 3..Len(t) : IsDigit(t[i], base)

\* the decimal numeral a is a greater number than the decimal numeral b
DecGreater(a, b) ==
    \/ Len(a) > Len(b)
    \/ /\ Len(a) = Len(b)
       /\ \E i \in 1..Len(a) : /\ \A j \in 1..(i - 1) : a[j] = b[j]
                               /\ Ord(a[i]) > Ord(b[i])

\* the number the text writes does not fit an int64_t (signed) or a uint64_t
Overflows(t, signed) ==
    \/ IsDecimal(t) /\ DecGreater(t, IF signed THEN s_int64_max ELSE s_uint64_max)
    \/ /\ IsPrefixed(t, "x", 16)
       /\ \/ Len(t) - 2 > 16
          \/ (signed /\ Len(t) - 2 = 16 /\ Ord(t[3]) >= 8)
    \/ /\ IsPrefixed(t, "b", 2)
       /\ \/ Len(t) - 2 > 64
          \/ (signed /\ Len(t) - 2 = 64)

\* C14: ccli_try_parse_int and ccli_try_parse_uint report failure, and so
\* leave the output unwritten, for every text whose number overflows the 64
\* bits of the target type, in decimal, in `0x` hexadecimal and in `0b`
\* binary.
C14_OverflowFails ==
    /\ call.done /\ call.fn = "ccli_try_parse_int" /\ Overflows(call.args[1], TRUE)
           => ~call.out.ok
    /\ call.done /\ call.fn = "ccli_try_parse_uint" /\ Overflows(call.args[1], FALSE)
           => ~call.out.ok

\* ------------------------------------------------------------------------
\* C15
\* ------------------------------------------------------------------------

\* the options an exclusion entry names
NamedBy(e) ==
    { k \in Opts : options[k].long_arg \in {mutual_exclusions[e].one, mutual_exclusions[e].other} }

\* the entry has its two names and neither is empty
WellFormed(e) ==
    /\ mutual_exclusions[e].other # Null
    /\ Len(mutual_exclusions[e].one) > 0
    /\ Len(mutual_exclusions[e].other) > 0

\* the well-formed entries that no malformed entry precedes and whose named
\* options are all in scope
RelevantPairs ==
    { e \in 1..Len(mutual_exclusions) :
        /\ \A j \in 1..e : WellFormed(j)
        /\ \A k \in NamedBy(e) : ScopeOk(k) }

\* both names of the entry were matched
BothMatched(e) ==
    /\ \E k \in NamedBy(e) : /\ options[k].long_arg = mutual_exclusions[e].one
                             /\ ccli_option_is_matched(options[k])
    /\ \E k \in NamedBy(e) : /\ options[k].long_arg = mutual_exclusions[e].other
                             /\ ccli_option_is_matched(options[k])

\* no option the entry names was matched, and all of them are required
NeitherOfRequired(e) ==
    \A k \in NamedBy(e) : /\ ~ccli_option_is_matched(options[k])
                          /\ ccli_option_is_required(options[k])

\* the entries that fail the parse
FailingPairs == { e \in RelevantPairs : BothMatched(e) \/ NeitherOfRequired(e) }

\* C15: once cli_parse_opts has used up the tokens, it fails on the first
\* exclusion pair with both options in scope that has both matched, or
\* neither matched and both required; pairs naming an option bound to
\* another scope cause no failure; a return leaves at most one option of
\* each relevant pair matched.
C15_Exclusions ==
    rev = "cli" =>
        /\ FinalCheckRan =>
             IF FailingPairs # {}
             THEN /\ outcome \in {"OneRequired", "MutuallyExclusive"}
                  /\ \E e \in FailingPairs :
                       /\ culprit = mutual_exclusions[e].one
                       /\ \A j \in FailingPairs : e <= j
                       /\ outcome = "MutuallyExclusive" <=> BothMatched(e)
             ELSE outcome \notin {"OneRequired", "MutuallyExclusive"}
        /\ outcome = "return" => \A e \in RelevantPairs : ~BothMatched(e)

\* under the subcommand, the first pair is satisfied and the second pair,
\* now in scope, has both options matched
C15_Witness ==
    /\ rev = "cli"
    /\ FinalCheckRan
    /\ cmd_idx > 1
    /\ outcome = "MutuallyExclusive"
    /\ culprit = s_fast
    /\ 1 \in RelevantPairs /\ ~BothMatched(1)

\* ------------------------------------------------------------------------
\* C16
\* ------------------------------------------------------------------------

\* cli_parse_opts was given an exclusion entry that lacks its second name
\* or has an empty name
MalformedExclusions ==
    /\ rev = "cli"
    /\ \E e \in 1..Len(mutual_exclusions) : ~WellFormed(e)

\* C16: with a malformed exclusion entry, cli_parse_opts ends in the
\* configuration error whatever the tokens are.
C16_MalformedExclusion ==
    MalformedExclusions /\ pc = "done" /\ Len(argv) >= 1 => outcome = "ConfigError"

\* ------------------------------------------------------------------------
\* C17
\* ------------------------------------------------------------------------

\* the options without a long name, and those that take a value by name
\* and have no placeholder for it
InvalidOptions ==
    { k \in Opts : \/ options[k].long_arg = Null
                   \/ /\ ccli_option_type(options[k]) # ccli_boolean
                      /\ ~ccli_option_is_positional(options[k])
                      /\ options[k].arg_desc = Null }

\* C17: with an invalid option in the table and any argv of a program
\* name and tokens, the parse goes from the validation straight to the
\* configuration error: no subcommand is looked up, no token is reached, no
\* help is rendered and no option is changed.
C17_ValidationFirst ==
    InvalidOptions # {} /\ Len(argv) >= 1 =>
        /\ pc \in {"validate", "done"}
        /\ pc = "done" => outcome = "ConfigError"
        /\ outcome \in {"running", "ConfigError"}
        /\ cmd_idx = 0 /\ argc_idx = 0
        /\ Untouched

\* the table has an option without a long name, argv asks for help, and
\* the parse has ended
C17_Witness ==
    /\ \E k \in InvalidOptions : options[k].long_arg = Null
    /\ \E i \in 1..(argc - 1) : Arg(i) = Dashes(s_help)
    /\ pc = "done"
    /\ outcome = "ConfigError"

\* ------------------------------------------------------------------------
\* C18
\* ------------------------------------------------------------------------

\* a call of ccli_params has returned
Packed == call.fn = "ccli_params" /\ call.done

\* C18: the accessors read back from a packed params field the kind, the
\* required flag, the positional flag and the scope it was packed from, and
\* the matched flag is clear.
C18_PackUnpack ==
    Packed =>
        /\ ccli_option_type(call.out) = call.args[1]
        /\ ccli_option_is_required(call.out) <=> call.args[2] = 1
        /\ ccli_option_is_positional(call.out) <=> call.args[3] = 1
        /\ ccli_option_subcmd(call.out) = call.args[4]
        /\ ccli_option_is_global(call.out) <=> call.args[4] = ccli_scope_global
        /\ ccli_option_is_root(call.out) <=> call.args[4] = ccli_scope_root
        /\ ~ccli_option_is_matched(call.out)

\* a required positional unsigned number of the highest scope was packed
C18_Witness ==
    /\ Packed
    /\ call.args = <<ccli_unumber, 1, 1, ccli_scope_subcmd(253)>>
    /\ ccli_option_subcmd(call.out) = 255

\* ------------------------------------------------------------------------
\* C19
\* ------------------------------------------------------------------------

\* the classifier has returned for the token call.args[1]
Classified == call.fn = "classify" /\ call.done

\* the four classes as the main loop tests them
LongClass == call.out.is_long
SingleShortClass == call.out.short_opt = "ccli_short_single"
ClusteredClass == ~call.out.is_long /\ call.out.short_opt = "ccli_short_multiple"
PositionalClass == call.out.is_positional

\* the token starts with the characters a and b
StartsWith(t, a, b) == Len(t) >= 2 /\ t[1] = a /\ t[2] = b

\* C19: a token is in exactly one of the four classes, each class holds the
\* tokens of its shape, and ccli__is_option is the negation of the
\* positional class.
C19_Classifier ==
    Classified =>
        /\ Cardinality({ c \in {"long", "single", "clustered", "positional"} :
                           \/ c = "long" /\ LongClass
                           \/ c = "single" /\ SingleShortClass
                           \/ c = "clustered" /\ ClusteredClass
                           \/ c = "positional" /\ PositionalClass }) = 1
        /\ LongClass <=> Len(call.args[1]) >= 3 /\ StartsWith(call.args[1], "-", "-")
        /\ SingleShortClass <=>
             /\ Len(call.args[1]) = 2
             /\ call.args[1][1] = "-" /\ call.args[1][2] # "-"
        /\ ClusteredClass <=>
             /\ Len(call.args[1]) >= 3
             /\ call.args[1][1] = "-" /\ call.args[1][2] # "-"
        /\ call.args[1] \in {<<>>, s_d, s_dd} => PositionalClass
        /\ call.out.is_option <=> ~PositionalClass

\* the two dashes alone are classified, as positional-shaped
C19_Witness ==
    /\ Classified
    /\ call.args[1] = s_dd
    /\ PositionalClass /\ ~call.out.is_option

\* ------------------------------------------------------------------------
\* C20
\* ------------------------------------------------------------------------

\* the shapes of a token
LongShaped(t) == Len(t) >= 3 /\ t[1] = "-" /\ t[2] = "-"
SingleShortShaped(t) == Len(t) = 2 /\ t[1] = "-" /\ t[2] # "-"
OptionShaped(t) == Len(t) >= 2 /\ t[1] = "-" /\ (Len(t) >= 3 \/ t[2] # "-")

\* ccli_parse_opts is about to classify the token argv[argc_idx]: it is no
\* sentinel and has no `=`
AtPlainToken ==
    /\ rev = "ccli"
    /\ AtToken
    /\ Arg(argc_idx) \notin {s_dd, s_d}
    /\ ~HasEq(Arg(argc_idx))

\* no positional option in scope is left unmatched
NoPositionalLeft ==
    \A k \in Opts : ~(/\ ScopeOk(k)
                      /\ ccli_option_is_positional(options[k])
                      /\ ~ccli_option_is_matched(options[k]))

\* no option in scope has the token as its name
NamesNothing == \A k \in Opts : ~(ScopeOk(k) /\ Names(Arg(argc_idx), k))

\* the parse ends in the error how, about the token, and changes no option
EndsIn(how) ==
    /\ pc' = "done"
    /\ outcome' = how
    /\ UNCHANGED <<options, data>>

C20_Step ==
    AtPlainToken =>
        /\ ~OptionShaped(Arg(argc_idx)) /\ NoPositionalLeft
               => EndsIn("ExcessPositional") /\ culprit' = Arg(argc_idx)
        /\ (LongShaped(Arg(argc_idx)) \/ SingleShortShaped(Arg(argc_idx))) /\ NamesNothing
               => EndsIn("UnknownArgument") /\ culprit' = Arg(argc_idx)
        /\ Clustered(Arg(argc_idx))
               => EndsIn(IF \E k \in Opts : ScopeOk(k) THEN "Unsupported"
                         ELSE "UnknownArgument")

C20_Step_any_option ==
    AtPlainToken =>
        /\ ~OptionShaped(Arg(argc_idx)) /\ NoPositionalLeft
               => outcome' = "ExcessPositional"
        /\ OptionShaped(Arg(argc_idx)) /\ NamesNothing
               => outcome' = "UnknownArgument"

Carried(k) == ccli_option_is_matched(entry[k])

\* the step is the check after the tokens and ends the call
FinalStep ==
    /\ pc = "check" \/ (pc = "loop" /\ argc_idx >= argc)
    /\ pc' = "done"

C21_Step ==
    /\ \A k \in Opts : ccli_option_is_matched(options[k]) => ccli_option_is_matched(options'[k])
    /\ FinalStep /\ outcome' = "MissingRequired"
           => \E k \in Opts : ~Carried(k) /\ culprit' = options[k].long_arg
    /\ FinalStep /\ rev = "ccli"
           /\ (\A k \in Opts : ScopeOk(k) /\ ccli_option_is_required(options[k]) => Carried(k))
           => outcome' = "return"
    /\ rev = "ccli" /\ AtToken /\ ~OptionShaped(Arg(argc_idx)) /\ ~HasEq(Arg(argc_idx))
           => \A k \in Opts : Carried(k) /\ ccli_option_is_positional(options[k])
                                  => data'[k] = data[k]

\* C21: no step of a parse, the entry into a second parse included, clears
\* a matched flag; a required option matched by an earlier parse is never
\* reported missing and the parse returns when every required option in
\* scope was matched earlier; in ccli_parse_opts a positional option matched
\* earlier takes no positional token.
C21_FlagsPersist == [][C21_Step]_vars

\* a second parse with no token at all has returned, for a required option
\* in scope that only the first parse matched
C21_Witness ==
    /\ pc = "done" /\ outcome = "return"
    /\ argc = 1
    /\ \E k \in Opts : /\ ScopeOk(k)
                       /\ ccli_option_is_required(options[k])
                       /\ Carried(k)

\* ------------------------------------------------------------------------
\* C22
\* ------------------------------------------------------------------------

\* the name of the active subcommand, Null under the root
ActiveName == IF cmd_idx > 1 THEN subcommands[cmd_idx - 1] ELSE Null

\* C22: once the active subcommand is known, the scope test of the main
\* loop and of the required check holds of an option exactly when
\* ccli__arg_relevant, the test of the help output, does.
C22_ScopeTestsAgree ==
    cmd_idx >= 1 =>
        \A k \in Opts : InScope(options[k], cmd_idx)
                            <=> ccli__arg_relevant(options[k], subcommands, ActiveName)

\* ------------------------------------------------------------------------
\* C23
\* ------------------------------------------------------------------------

\* the two descriptors differ in the matched bit at most
SameButMatched(o, p) ==
    /\ o.short_arg = p.short_arg
    /\ o.long_arg = p.long_arg
    /\ o.arg_desc = p.arg_desc
    /\ ccli_option_type(o) = ccli_option_type(p)
    /\ ccli_option_subcmd(o) = ccli_option_subcmd(p)
    /\ ccli_option_is_required(o) <=> ccli_option_is_required(p)
    /\ ccli_option_is_positional(o) <=> ccli_option_is_positional(p)
    /\ p.params \in {o.params, o.params + CCLI_ARG_MAT_MASK}

\* set_matched sets the bit of the descriptor, leaves the rest and does
\* nothing more when applied again
SetsOnce(o) ==
    /\ ccli_option_is_matched(ccli_option_set_matched(o))
    /\ SameButMatched(o, ccli_option_set_matched(o))
    /\ ccli_option_set_matched(ccli_option_set_matched(o)) = ccli_option_set_matched(o)

C23_Step ==
    /\ Len(options') = Len(options)
    /\ \A k \in Opts :
         \/ options'[k] = options[k]
         \/ /\ SameButMatched(options[k], options'[k])
            /\ ~ccli_option_is_matched(options[k])
            /\ ccli_option_is_matched(options'[k])
    /\ pc' = "done" => \A k \in Opts : SetsOnce(options'[k])

\* C23: a step of a parse changes nothing of a descriptor but the matched
\* bit, from clear to set and never back; a matched descriptor stays as it
\* is; on the descriptors a parse ends with, matched or not, set_matched
\* sets the bit, leaves the rest and is idempotent.
C23_OnlyMatchedChanges == [][C23_Step]_vars

\* the parse goes on after two tokens that name the same option
C23_Witness ==
    /\ pc \in {"loop", "check", "done"} /\ outcome \in {"running", "return"}
    /\ argc_idx >= 3
    /\ Arg(1) = Arg(2)
    /\ \E k \in Opts : Names(Arg(1), k) /\ ccli_option_is_matched(options[k])

\* ------------------------------------------------------------------------
\* C24
\* ------------------------------------------------------------------------

\* a token `--` or `-` stands before the token the main loop is at
SentinelBefore == \E i \in 1..(argc_idx - 1) : Arg(i) \in {s_dd, s_d}

C24_Step ==
    AtToken /\ SentinelBefore =>
        \A k \in Opts : ~(/\ Names(TokenName(Arg(argc_idx)), k)
                          /\ ~ccli_option_is_matched(options[k])
                          /\ ccli_option_is_matched(options'[k]))

\* C24: the main loop matches no token that stands after the first `--` or
\* `-` of argv with an option by its name.
C24_NoNamesAfterSentinel == [][C24_Step]_vars

\* ------------------------------------------------------------------------
\* C25
\* ------------------------------------------------------------------------

C25_Step == \A k \in Opts : Changed(k) => ScopeOk(k)

\* C25: no step of a parse, the pass over the tokens after a sentinel
\* included, sets the matched flag or writes the destination of an option
\* that is out of scope.
C25_OutOfScopeUntouched == [][C25_Step]_vars

\* ------------------------------------------------------------------------
\* C26
\* ------------------------------------------------------------------------

\* no two options in scope share a long name or a short name
UniqueNames ==
    \A j, k \in Opts :
        j # k /\ ScopeOk(j) /\ ScopeOk(k) =>
            /\ options[j].long_arg # options[k].long_arg
            /\ options[j].short_arg = NUL \/ options[j].short_arg # options[k].short_arg

\* the token is the name of an option in scope that takes a value
NamesValued(t) ==
    /\ ~HasEq(t)
    /\ \E k \in Opts : /\ ScopeOk(k)
                       /\ Names(t, k)
                       /\ ccli_option_type(options[k]) # ccli_boolean

C26_Step ==
    /\ pc = "find_help" /\ pc' = "loop" => argc_idx' = (IF cmd_idx > 1 THEN 2 ELSE 1)
    /\ pc = "loop" => argc_idx <= argc
    /\ AtToken /\ UniqueNames =>
         /\ pc' = "loop" =>
              /\ argc_idx' = argc_idx + (IF NamesValued(Arg(argc_idx)) THEN 2 ELSE 1)
              /\ argc_idx' <= argc
         /\ pc' # "loop" => argc_idx' = argc_idx

\* C26: with unique names among the options in scope, the main loop starts
\* after the program name and the subcommand, moves its cursor forward by 2
\* over the name of a valued option and its value and by 1 over any other
\* token, never moves it otherwise and never past argc.
C26_CursorAdvance == [][C26_Step]_vars

\* the loop has used up three tokens: a boolean option, then a string
\* option and its value
C26_Witness ==
    /\ pc = "loop" /\ argc = 4 /\ argc_idx = argc
    /\ UniqueNames
    /\ \E k \in Opts : /\ Names(Arg(1), k)
                       /\ ccli_option_type(options[k]) = ccli_boolean
                       /\ ccli_option_is_matched(options[k])
    /\ \E k \in Opts : /\ Names(Arg(2), k)
                       /\ ccli_option_type(options[k]) = ccli_string
                       /\ data[k] = StrVal(Arg(3))

\* ------------------------------------------------------------------------
\* C27
\* ------------------------------------------------------------------------

\* the positional options in scope that are unmatched
PositionalsLeft ==
    { k \in Opts : /\ ScopeOk(k)
                   /\ ccli_option_is_positional(options[k])
                   /\ ~ccli_option_is_matched(options[k]) }

C27_Step ==
    AtToken /\ Arg(argc_idx) \in {s_dd, s_d} =>
        /\ argc - argc_idx - 1 > Cardinality(PositionalsLeft)
               => outcome' = "TooManyPositionals"
        /\ outcome' = "running"
               => \A i \in (argc_idx + 1)..(argc - 1) :
                      \E k \in Opts : /\ ccli_option_is_positional(options[k])
                                      /\ data'[k] = StrVal(Arg(i))

\* C27: at a sentinel, more tokens after it than positional options in
\* scope left unmatched end the parse in the too-many-positionals error,
\* and the parse goes on to its return only with every token after the
\* sentinel stored in a positional option.
C27_NoTokenDiscarded == [][C27_Step]_vars

\* ------------------------------------------------------------------------
\* C28
\* ------------------------------------------------------------------------

\* option k is named in an exclusion entry whose other named option was
\* matched
PartnerMatched(k) ==
    \E e \in 1..Len(mutual_exclusions) :
        /\ k \in NamedBy(e)
        /\ \E j \in NamedBy(e) \ {k} : ccli_option_is_matched(options[j])

\* C28: with exclusion entries given, cli_parse_opts returns normally only
\* with every required option in scope matched itself or named in an
\* exclusion entry whose other named option is matched.
C28_RequiredOrPartner ==
    /\ rev = "cli"
    /\ mutual_exclusions # <<>>
    /\ pc = "done"
    /\ outcome = "return"
    => \A k \in Opts :
           ScopeOk(k) /\ ccli_option_is_required(options[k])
               => ccli_option_is_matched(options[k]) \/ PartnerMatched(k)

\* ------------------------------------------------------------------------
\* C29
\* ------------------------------------------------------------------------

\* the value text the token argv[argc_idx] gives its option: what follows
\* the `=`, or the next token
ValueGiven ==
    IF HasEq(Arg(argc_idx)) THEN ValuePart(Arg(argc_idx))
    ELSE IF argc_idx + 1 < argc THEN Arg(argc_idx + 1) ELSE <<>>

C29_Step ==
    AtToken =>
        \A k \in Opts :
            /\ ccli_option_type(options[k]) = ccli_unumber
            /\ data'[k] # data[k]
            => ~(ValueGiven # <<>> /\ Head(ValueGiven) = "-")

\* C29: no step of the parse stores a value into an unsigned destination
\* from a value text that begins with `-`.
C29_NoNegativeUnsigned == [][C29_Step]_vars

\* ------------------------------------------------------------------------
\* C30
\* ------------------------------------------------------------------------

\* the state of the parse had option k not occurred before
Forgot(k) ==
    [Cur EXCEPT !.options[k] = Tables[table].options[k], !.data[k] = Unset]

\* the main loop's work on the token argv[argc_idx] from the state st
StepFrom(st, stray) ==
    IF HasEq(Arg(argc_idx)) THEN ParseEquals(rev, cmd_idx, Arg(argc_idx), stray, st)
    ELSE MatchArg(rev, argv, cmd_idx, st)

\* the name tests of the parser take the token argv[argc_idx] for option k:
\* the token is `--<long name>` or `-c`, or its text before the `=` passes
\* the test of parse_equals
Taken(k, stray) ==
    IF HasEq(Arg(argc_idx))
    THEN EqualsMatches(SubSeq(Arg(argc_idx), 1, ccli_stridx(Arg(argc_idx), "=")),
                       options[k], stray)
    ELSE Names(Arg(argc_idx), k)

\* the token argv[argc_idx] is an occurrence of the non-positional option k
\* in scope, which an earlier token has matched
Repeats(k, stray) ==
    /\ AtToken
    /\ ~IsSentinel(Arg(argc_idx))
    /\ ScopeOk(k)
    /\ ~ccli_option_is_positional(options[k])
    /\ Taken(k, stray)
    /\ ccli_option_is_matched(options[k])

C30_Step ==
    \E stray \in StrayBytes :
        /\ \A k \in Opts : Repeats(k, stray) =>
               /\ outcome' = StepFrom(Forgot(k), stray).outcome
               /\ outcome' = "running" =>
                      /\ ccli_option_is_matched(options'[k])
                      /\ data'[k] = StepFrom(Forgot(k), stray).data[k]
        /\ \A k \in Opts :
               /\ AtToken
               /\ ~IsSentinel(Arg(argc_idx))
               /\ ~ccli_option_is_positional(options[k])
               /\ ~Taken(k, stray)
               => options'[k] = options[k] /\ data'[k] = data[k]

\* C30: a token that is an occurrence of a non-positional option which an
\* earlier token has matched ends as it would have ended on the option's
\* first occurrence, leaves the option matched and stores the value it would
\* have stored then; a token that is no occurrence of the option leaves its
\* matched bit and its value alone.
C30_LastOccurrenceWins == [][C30_Step]_vars

\* the parse returned from `--name=v1 --name v2` with the value of v2
C30_Witness ==
    /\ pc = "done" /\ outcome = "return"
    /\ argc = 4
    /\ \E k \in Opts :
           /\ HasEq(Arg(1))
           /\ Names(NamePart(Arg(1)), k)
           /\ Arg(2) = Dashes(options[k].long_arg)
           /\ ValuePart(Arg(1)) # Arg(3)
           /\ ccli_option_type(options[k]) = ccli_unumber
           /\ data[k] = Unsigned(rev, ccli_try_parse_uint(Arg(3)).val)

====
